---- MODULE Spec2Model ----
(***************************************************************************)
(* Receive side of the multicast paging utility.                           *)
(*                                                                         *)
(*   SpecPaging  - the Polycom paging monitor loop                         *)
(*                 (src/src/cli/polycom_monitor.rs, run_polycom_monitor)   *)
(*                 with the session state machine of                       *)
(*                 src/src/network/polycom.rs (PolycomSession).            *)
(*   SpecRtp     - the RTP receive loops of the monitor and of the         *)
(*                 automated test (src/src/cli/monitor.rs,                 *)
(*                 run_monitor_range; src/src/cli/test.rs, run_test).      *)
(*   Spec        - either of the two commands.                             *)
(*                                                                         *)
(* Time is the monotonic clock in milliseconds.  The clock saturates at    *)
(* the end of the modelled time span so that the state space is finite.    *)
(***************************************************************************)
EXTENDS Integers, Sequences, FiniteSets, TLC

VARIABLES
    now,              \* Instant::now(), in ms since the start of the run
    pc,               \* position of the running command in its loop
    options,          \* the command's options (timeout, channel filter, mode)
    buf,              \* what the last receive returned: a datagram, or none on a timeout
    sessions,         \* polycom_monitor.rs: HashMap<u8, RecordingState>
    completed_pages,  \* polycom_monitor.rs: Vec<PageSummary>
    pages_started,    \* history: number of sessions / pages opened so far
    seen,             \* history: packets handled by the latest session of a channel
    received,         \* history: datagrams accepted by a session so far
    endpoint_states,  \* monitor.rs / test.rs: HashMap<(Ipv4Addr, u16), EndpointState>
    sock,             \* monitor.rs / test.rs: the socket the drain loop is reading
    errors,           \* test.rs: Vec<String> of non-fatal errors (its length)
    summary,          \* test.rs: summary.json once written
    unread,           \* polycom_monitor.rs: datagrams waiting on the sockets after sockets[0]
    stream,           \* history: the sequence numbers handed to PageStats::update
    tx,               \* polycom_transmit.rs / transmit.rs: the locals of the transmitter
    sent              \* history: the datagrams handed to socket.send_to, in order

pmVars == <<sessions, seen>>
rxVars == <<endpoint_states, sock, errors, summary>>
auxVars == <<unread, stream, tx, sent>>
vars == <<now, pc, options, buf, completed_pages, pages_started, received,
          sessions, seen, endpoint_states, sock, errors, summary,
          unread, stream, tx, sent>>

(***************************************************************************)
(* Bounds of the model.                                                    *)
(***************************************************************************)
MaxTicks == 5          \* the clock saturates after this many receive timeouts
MaxDatagrams == 5      \* datagrams that reach a session, per run

(***************************************************************************)
(* Program constants of the paging monitor.                                *)
(***************************************************************************)
session_timeout_ms == 2000       \* polycom_monitor.rs:121
PmRecvTimeoutMs == 500           \* polycom_monitor.rs:136
EndsToComplete == 3              \* polycom.rs:749
OP_ALERT == 15                   \* polycom.rs:26
OP_TRANSMIT == 16                \* polycom.rs:29
OP_END == 255                    \* polycom.rs:32
CODEC_G711U == 0                 \* polycom.rs:35
CODEC_G711A == 8                 \* polycom.rs:38
CODEC_G722 == 9                  \* polycom.rs:41
G711_FRAME_SIZE == 160           \* polycom.rs:56
G722_FRAME_SIZE == 160           \* polycom.rs:61
MinHeaderLen == 7                \* polycom.rs:247
AudioHeaderLen == 6              \* polycom.rs:405
ChannelMax == 50                 \* polycom.rs:259

MaxTime == MaxTicks * PmRecvTimeoutMs
DurationMax == MaxTime + session_timeout_ms + 1   \* Duration::MAX: never reached

\* The clock after d more milliseconds.
Advance(d) == IF now + d > MaxTime THEN MaxTime ELSE now + d

\* All orders in which a HashMap may hand out the keys in S.
Orders(S) == {o \in [1..Cardinality(S) -> S] : \A x \in S : \E i \in DOMAIN o : o[i] = x}

(***************************************************************************)
(* Paging datagrams.  A datagram is described by the bytes the parser      *)
(* looks at: total length, op code, channel, caller-id length and the      *)
(* codec byte of the audio header.                                         *)
(***************************************************************************)
PmDatagram(op, ch, cidlen, len, codec) ==
    [op |-> op, channel |-> ch, caller_id_len |-> cidlen, len |-> len, codec |-> codec]

PmChannels == {1, 2}
HeaderLen20 == MinHeaderLen + 13

AlertDatagram(ch) == PmDatagram(OP_ALERT, ch, 13, HeaderLen20, 0)
EndDatagram(ch) == PmDatagram(OP_END, ch, 13, HeaderLen20, 0)
TransmitDatagram(ch) ==
    PmDatagram(OP_TRANSMIT, ch, 13, HeaderLen20 + AudioHeaderLen + G711_FRAME_SIZE, CODEC_G711U)

MalformedPm ==
    { PmDatagram(17, 1, 13, HeaderLen20, 0),                   \* invalid op code
      PmDatagram(OP_ALERT, 0, 13, HeaderLen20, 0),             \* channel 0
      PmDatagram(OP_TRANSMIT, 51, 13, HeaderLen20 + 166, 0),   \* channel above 50
      PmDatagram(OP_TRANSMIT, 1, 13, HeaderLen20 + 3, 0) }     \* truncated audio header

PmDatagrams ==
    {AlertDatagram(c) : c \in PmChannels} \cup {TransmitDatagram(c) : c \in PmChannels}
        \cup {EndDatagram(c) : c \in PmChannels} \cup MalformedPm

NoDatagram == PmDatagram(0, 0, 0, 0, 0)

\* PacketType::from_op_code
from_op_code(op) ==
    IF op = OP_ALERT THEN "Alert"
    ELSE IF op = OP_TRANSMIT THEN "Transmit"
    ELSE IF op = OP_END THEN "End"
    ELSE "None"

\* PolycomCodec::from_byte
from_byte(b) ==
    IF b = CODEC_G711U THEN "G711U"
    ELSE IF b = CODEC_G711A THEN "G711A"
    ELSE IF b = CODEC_G722 THEN "G722"
    ELSE "None"

\* PolycomCodec::frame_size
frame_size(codec) == IF codec = "G722" THEN G722_FRAME_SIZE ELSE G711_FRAME_SIZE

ParseErr(e) == [ok |-> FALSE, error |-> e]

\* PolycomHeader::parse
PolycomHeaderParse(d) ==
    IF d.len < MinHeaderLen THEN ParseErr("TooShort")
    ELSE IF from_op_code(d.op) = "None" THEN ParseErr("InvalidOpCode")
    ELSE IF d.channel = 0 \/ d.channel > ChannelMax THEN ParseErr("InvalidChannel")
    ELSE IF d.len < MinHeaderLen + d.caller_id_len THEN ParseErr("Truncated")
    ELSE [ok |-> TRUE, packet_type |-> from_op_code(d.op), channel |-> d.channel,
          header_len |-> MinHeaderLen + d.caller_id_len]

\* PolycomPacket::parse_with_time
PolycomParse(d) ==
    LET h == PolycomHeaderParse(d) IN
    IF ~h.ok THEN h
    ELSE IF h.packet_type \in {"Alert", "End"}
    THEN [ok |-> TRUE, packet_type |-> h.packet_type, channel |-> h.channel,
          audio_header |-> "None", redundant_frame |-> FALSE, audio_frame |-> FALSE]
    ELSE LET payload_len == d.len - h.header_len
             audio_len == payload_len - AudioHeaderLen
             codec == from_byte(d.codec)
         IN  IF payload_len < AudioHeaderLen THEN ParseErr("TooShort")
             ELSE IF codec = "None" THEN ParseErr("InvalidCodec")
             ELSE [ok |-> TRUE, packet_type |-> "Transmit", channel |-> h.channel,
                   audio_header |-> codec,
                   redundant_frame |-> (audio_len >= 2 * frame_size(codec)),
                   audio_frame |-> (audio_len >= frame_size(codec))]

(***************************************************************************)
(* PolycomSession (polycom.rs) inside RecordingState (polycom_monitor.rs). *)
(***************************************************************************)
\* PolycomSession::from_alert, wrapped in a fresh RecordingState
from_alert(t) ==
    [state |-> "Alerting", codec |-> "None", last_packet_at |-> t,
     alert_count |-> 1, audio_packet_count |-> 0, end_count |-> 0,
     decoder |-> "None", samples |-> 0]

\* An update whose Transmit always makes the session Transmitting.
update_transmit_resumes(s, p, t) ==
    LET s1 == [s EXCEPT !.last_packet_at = t] IN
    IF p.packet_type = "Alert" THEN [s1 EXCEPT !.alert_count = @ + 1]
    ELSE IF p.packet_type = "Transmit"
    THEN [s1 EXCEPT !.state = "Transmitting",
                    !.codec = IF p.audio_header # "None" THEN p.audio_header ELSE @,
                    !.audio_packet_count = @ + 1]
    ELSE [s1 EXCEPT !.state = "Ending", !.end_count = @ + 1]

\* An update whose Alert takes the session back to Alerting.
update_alert_restarts(s, p, t) ==
    LET s1 == [s EXCEPT !.last_packet_at = t] IN
    IF p.packet_type = "Alert" THEN [s1 EXCEPT !.alert_count = @ + 1, !.state = "Alerting"]
    ELSE IF p.packet_type = "Transmit"
    THEN [s1 EXCEPT !.state = IF @ = "Alerting" THEN "Transmitting" ELSE @,
                    !.codec = IF p.audio_header # "None" THEN p.audio_header ELSE @,
                    !.audio_packet_count = @ + 1]
    ELSE [s1 EXCEPT !.state = "Ending", !.end_count = @ + 1]

\* PolycomSession::update
update(s, p, t) ==
    LET s1 == [s EXCEPT !.last_packet_at = t] IN
    IF p.packet_type = "Alert" THEN [s1 EXCEPT !.alert_count = @ + 1]
    ELSE IF p.packet_type = "Transmit"
    THEN [s1 EXCEPT !.state = IF @ = "Alerting" THEN "Transmitting" ELSE @,
                    !.codec = IF p.audio_header # "None" THEN p.audio_header ELSE @,
                    !.audio_packet_count = @ + 1]
    ELSE [s1 EXCEPT !.state = "Ending", !.end_count = @ + 1]

\* PolycomSession::is_timed_out
is_timed_out(s, timeout_ms) == now - s.last_packet_at > timeout_ms

\* A session that would count as complete on its second End packet.
complete_on_second_end(s) == s.state = "Ending" /\ s.end_count >= EndsToComplete - 1

\* PolycomSession::is_complete
is_complete(s) == s.state = "Ending" /\ s.end_count >= EndsToComplete

\* finalize_session: the PageSummary of a session
finalize_session(channel, s) ==
    [channel |-> channel, audio_packets |-> s.audio_packet_count, codec |-> s.codec]

\* HashMap::insert / HashMap::remove
MapInsert(m, k, v) == [x \in DOMAIN m \cup {k} |-> IF x = k THEN v ELSE m[x]]
MapRemove(m, ks) == [x \in DOMAIN m \ ks |-> m[x]]

(***************************************************************************)
(* run_polycom_monitor: the receive loop.  Each loop iteration is one      *)
(* action: the timeout check at the top, the receive with its 500 ms       *)
(* timeout, and the handler of what was received.                          *)
(***************************************************************************)
start_time == 0     \* polycom_monitor.rs:115, the clock starts with the loop

\* A datagram that is delivered arrives half a receive timeout after the call.
PmArrivalDelay == PmRecvTimeoutMs \div 2

\* polycom_monitor.rs:130, the check at the top of the loop
PmTimeoutExpired ==
    options.timeout # DurationMax /\ now - start_time > options.timeout

PmRunning == pc = "loop" /\ ~PmTimeoutExpired

\* polycom_monitor.rs:149, the channel filter (empty = accept all)
PassesFilter(channel) ==
    options.channel_filter = {} \/ channel \in options.channel_filter

\* The datagram d is read from the socket and parses as packet type ty.
PmReceives(d, ty) ==
    /\ PmRunning
    /\ d \in PmDatagrams
    /\ PolycomParse(d).ok
    /\ PolycomParse(d).packet_type = ty
    /\ PassesFilter(PolycomParse(d).channel)
    /\ received < MaxDatagrams
    /\ now' = Advance(PmArrivalDelay)
    /\ buf' = d
    /\ received' = received + 1
    /\ UNCHANGED <<pc, options, rxVars, auxVars>>

\* handle_alert
handle_alert(d) ==
    LET channel == PolycomParse(d).channel IN
    /\ PmReceives(d, "Alert")
    /\ IF channel \in DOMAIN sessions
       THEN /\ sessions' = [sessions EXCEPT ![channel] = update(@, PolycomParse(d), now')]
            /\ seen' = [seen EXCEPT ![channel].alert = @ + 1]
            /\ UNCHANGED pages_started
       ELSE /\ sessions' = MapInsert(sessions, channel, from_alert(now'))
            /\ pages_started' = pages_started + 1
            /\ seen' = [seen EXCEPT ![channel] = [alert |-> 1, transmit |-> 0, end |-> 0]]
    /\ UNCHANGED completed_pages

\* What handle_transmit does to the RecordingState of the packet's channel.
TransmitEffect(s, p, t) ==
    LET s1 == update(s, p, t) IN
    IF p.audio_header = "None" THEN s1
    ELSE [s1 EXCEPT !.decoder = IF @ = "None" THEN p.audio_header ELSE @,
                    !.samples = IF p.audio_frame THEN @ + 1 ELSE @]

\* handle_transmit
handle_transmit(d) ==
    LET channel == PolycomParse(d).channel IN
    /\ PmReceives(d, "Transmit")
    /\ IF channel \in DOMAIN sessions
       THEN /\ sessions' = [sessions EXCEPT ![channel] = TransmitEffect(@, PolycomParse(d), now')]
            /\ seen' = [seen EXCEPT ![channel].transmit = @ + 1]
       ELSE \* "Transmit packet without prior Alert": the packet is dropped
            UNCHANGED <<sessions, seen>>
    /\ UNCHANGED <<completed_pages, pages_started>>

\* handle_end, and the push of its summary in run_polycom_monitor
handle_end(d) ==
    LET channel == PolycomParse(d).channel IN
    /\ PmReceives(d, "End")
    /\ IF channel \in DOMAIN sessions
       THEN LET s == update(sessions[channel], PolycomParse(d), now') IN
            IF is_complete(s)
            THEN /\ sessions' = MapRemove(sessions, {channel})
                 /\ completed_pages' = Append(completed_pages, finalize_session(channel, s))
            ELSE /\ sessions' = [sessions EXCEPT ![channel] = s]
                 /\ UNCHANGED completed_pages
       ELSE UNCHANGED <<sessions, completed_pages>>
    /\ seen' = IF channel \in DOMAIN sessions
               THEN [seen EXCEPT ![channel].end = @ + 1] ELSE seen
    /\ UNCHANGED pages_started

\* polycom_monitor.rs:149-151, a packet of a channel outside the filter
PmFiltered(d) ==
    /\ PmRunning
    /\ d \in PmDatagrams
    /\ PolycomParse(d).ok
    /\ ~PassesFilter(PolycomParse(d).channel)
    /\ now' = Advance(PmArrivalDelay)
    /\ buf' = d
    /\ UNCHANGED <<pc, options, sessions, completed_pages, pages_started, seen, received, rxVars, auxVars>>

\* polycom_monitor.rs:167-169, a datagram that does not parse
PmParseError(d) ==
    /\ PmRunning
    /\ d \in PmDatagrams
    /\ ~PolycomParse(d).ok
    /\ now' = Advance(PmArrivalDelay)
    /\ buf' = d
    /\ UNCHANGED <<pc, options, sessions, completed_pages, pages_started, seen, received, rxVars, auxVars>>

\* The summaries of the channels in order o.
SummariesOf(o, m) == [i \in DOMAIN o |-> finalize_session(o[i], m[o[i]])]

\* cleanup_stale_sessions
StaleChannels(timeout_ms) ==
    {c \in DOMAIN sessions : is_timed_out(sessions[c], timeout_ms)}

\* polycom_monitor.rs:175-178, the receive timed out: cleanup_stale_sessions
cleanup_stale_sessions ==
    /\ PmRunning
    /\ now' = Advance(PmRecvTimeoutMs)
    /\ LET stale == {c \in DOMAIN sessions : now' - sessions[c].last_packet_at > session_timeout_ms}
       IN  /\ sessions' = MapRemove(sessions, stale)
           /\ \E o \in Orders(stale) :
                completed_pages' = completed_pages \o SummariesOf(o, sessions)
    /\ buf' = NoDatagram
    /\ UNCHANGED <<pc, options, pages_started, seen, received, rxVars, auxVars>>

\* polycom_monitor.rs:130-132, the run timeout ends the loop
PmTimeoutBreak ==
    /\ pc = "loop"
    /\ PmTimeoutExpired
    /\ pc' = "final"
    /\ UNCHANGED <<now, options, buf, sessions, completed_pages, pages_started, seen, received, rxVars, auxVars>>

\* polycom_monitor.rs:183-187, final cleanup: sessions.drain()
PmFinalCleanup ==
    /\ pc = "final"
    /\ \E o \in Orders(DOMAIN sessions) :
         completed_pages' = completed_pages \o SummariesOf(o, sessions)
    /\ sessions' = MapRemove(sessions, DOMAIN sessions)
    /\ pc' = "done"
    /\ UNCHANGED <<now, options, buf, pages_started, seen, received, rxVars, auxVars>>

(***************************************************************************)
(* The RTP receive loops: run_monitor_range (monitor.rs) and run_test      *)
(* (test.rs).  The two loops are the same code but for what happens to an  *)
(* error of a handler: the monitor returns it (the command fails), the     *)
(* automated test records it in `errors` and goes on.  options.mode tells  *)
(* which of the two is running.                                            *)
(***************************************************************************)
IdleTimeoutMs == 5000            \* monitor.rs:316, test.rs:367
RxRecvTimeoutMs == 10            \* monitor.rs:393, test.rs:402
RtpMinLen == 12                  \* rtp.rs:66
RtpVersion == 2                  \* rtp.rs:73

RxMaxTicks == 4                  \* bound: receive timeouts modelled past the idle timeout
RxMaxReads == 4                  \* bound: datagrams followed one by one in a run

RxMaxTime == IdleTimeoutMs + RxMaxTicks * RxRecvTimeoutMs

\* The clock after d more milliseconds.
RxAdvance(d) == IF now + d > RxMaxTime THEN RxMaxTime ELSE now + d

\* A datagram that is delivered arrives half a receive timeout after the call.
RxArrivalDelay == RxRecvTimeoutMs \div 2

NoInstant == 0 - 1               \* Option<Instant>::None

\* The endpoints of the pattern, in the iteration order of the HashMap, and
\* the sockets (one per port) in the iteration order of theirs.
Endpoints == <<[address |-> "a1", port |-> "p1"], [address |-> "a2", port |-> "p1"]>>
Sockets == <<"p1">>
EndpointIds == DOMAIN Endpoints

\* RTP datagrams, described by what the parser looks at.
RtpDatagram(len, version, padding, extension, cc, ext_words, last_byte, pt, seq, ssrc) ==
    [len |-> len, version |-> version, padding |-> padding, extension |-> extension,
     csrc_count |-> cc, ext_words |-> ext_words, last_byte |-> last_byte,
     payload_type |-> pt, sequence_number |-> seq, ssrc |-> ssrc]

\* A well-formed packet with one G.711 frame as its payload
FrameBytes == G711_FRAME_SIZE
RtpValid(ssrc, seq, pt) ==
    RtpDatagram(RtpMinLen + FrameBytes, RtpVersion, FALSE, FALSE, 0, 0, 0, pt, seq, ssrc)

MalformedRtp ==
    { RtpDatagram(8, RtpVersion, FALSE, FALSE, 0, 0, 0, 0, 1, "A"),                  \* shorter than 12 bytes
      RtpDatagram(RtpMinLen + FrameBytes, 1, FALSE, FALSE, 0, 0, 0, 0, 1, "A"),      \* version 1
      RtpDatagram(RtpMinLen + 2, RtpVersion, FALSE, FALSE, 1, 0, 0, 0, 1, "A"),      \* truncated CSRC list
      RtpDatagram(RtpMinLen + FrameBytes, RtpVersion, TRUE, FALSE, 0, 0, 0, 0, 1, "A") } \* padding length 0

\* CodecType::from_payload_type
from_payload_type(pt) ==
    IF pt = 0 THEN "G711Ulaw"
    ELSE IF pt = 8 THEN "G711Alaw"
    ELSE IF pt = 9 THEN "G722"
    ELSE IF pt \in {10, 11} THEN "L16"
    ELSE IF pt \in 96..127 THEN "Opus"
    ELSE "None"

\* create_decoder_for_payload_type: the decoder, or "None" for Err(UnsupportedPayloadType)
create_decoder_for_payload_type(pt) == from_payload_type(pt)

\* A payload type without a codec mapping
UnmappedPt == CHOOSE pt \in 0..127 : from_payload_type(pt) = "None"

RxSeqs == {1, 3}
PT_PCMU == 0                     \* traits.rs:106

RxDatagrams ==
    {RtpValid("A", seq, PT_PCMU) : seq \in RxSeqs}
        \cup {RtpValid("B", 1, PT_PCMU), RtpValid("C", 1, UnmappedPt)} \cup MalformedRtp

\* A parser that would take the header fields of any datagram as they are.
parse_without_checks(d) ==
    [ok |-> TRUE, ssrc |-> d.ssrc, sequence_number |-> d.sequence_number,
     payload_type |-> d.payload_type, payload_len |-> d.len]

\* RtpPacket::parse_with_time
RtpParse(d) ==
    LET header_len == RtpMinLen + d.csrc_count * 4
        ext_len == header_len + 4 + d.ext_words * 4
        full_len == IF d.extension THEN ext_len ELSE header_len
    IN  IF d.len < RtpMinLen THEN ParseErr("TooShort")
        ELSE IF d.version # RtpVersion THEN ParseErr("InvalidVersion")
        ELSE IF d.len < header_len THEN ParseErr("Truncated")
        ELSE IF d.extension /\ (d.len < header_len + 4 \/ d.len < ext_len) THEN ParseErr("Truncated")
        ELSE IF d.padding /\ (d.last_byte = 0 \/ d.last_byte > d.len - full_len)
             THEN ParseErr("InvalidPadding")
        ELSE [ok |-> TRUE, ssrc |-> d.ssrc, sequence_number |-> d.sequence_number,
              payload_type |-> d.payload_type,
              payload_len |-> (IF d.padding THEN d.len - d.last_byte ELSE d.len) - full_len]

\* PageStats::default
PageStatsDefault == [packets_received |-> 0, packets_lost |-> 0, last_sequence |-> NoInstant]

\* A loss count that would charge every gap, however large.
update_without_gap_limit(stats, p) ==
    LET gap == (p.sequence_number - stats.last_sequence) % 65536
        lost == IF stats.last_sequence # NoInstant /\ gap > 1 THEN gap - 1 ELSE 0
    IN  [packets_received |-> stats.packets_received + 1,
         packets_lost |-> stats.packets_lost + lost,
         last_sequence |-> p.sequence_number]

\* A loss count that would compare the sequence numbers without the 16-bit wrap.
update_without_wrap(stats, p) ==
    LET gap == p.sequence_number - stats.last_sequence
        lost == IF stats.last_sequence # NoInstant /\ gap # 1 /\ gap < 1000
                THEN (IF gap > 1 THEN gap - 1 ELSE 1) ELSE 0
    IN  [packets_received |-> stats.packets_received + 1,
         packets_lost |-> stats.packets_lost + lost,
         last_sequence |-> p.sequence_number]

\* PageStats::update (packet count and loss; 16-bit sequence arithmetic)
stats_update(stats, p) ==
    LET gap == (p.sequence_number - stats.last_sequence) % 65536
        lost == IF /\ stats.last_sequence # NoInstant
                   /\ p.sequence_number # (stats.last_sequence + 1) % 65536
                   /\ gap > 1 /\ gap < 1000
                THEN gap - 1 ELSE 0
    IN  [packets_received |-> stats.packets_received + 1,
         packets_lost |-> stats.packets_lost + lost,
         last_sequence |-> p.sequence_number]

\* PageStats::loss_percent, in thousandths of a percent (rounded down)
loss_percent(stats) ==
    IF stats.packets_received + stats.packets_lost = 0 THEN 0
    ELSE (100 * 1000 * stats.packets_lost) \div (stats.packets_received + stats.packets_lost)

\* EndpointState::new / TestEndpointState::new
EndpointNew ==
    [stats |-> PageStatsDefault, decoder |-> "None", recorder |-> FALSE,
     page_active |-> FALSE, page_start |-> NoInstant, last_packet |-> NoInstant,
     ssrc |-> "None", page_count |-> 0]

\* A reset that would leave the SSRC and the recorder of the page in the slot.
reset_keeps_ssrc(st) ==
    [st EXCEPT !.page_active = FALSE, !.stats = PageStatsDefault, !.decoder = "None",
               !.page_start = NoInstant]

\* EndpointState::reset_page / TestEndpointState::reset_page
reset_page(st) ==
    [st EXCEPT !.page_active = FALSE, !.stats = PageStatsDefault, !.decoder = "None",
               !.recorder = FALSE, !.page_start = NoInstant, !.ssrc = "None"]

\* The duration handle_page_end / handle_test_page_end reports
page_duration(st) ==
    IF st.page_start # NoInstant /\ st.last_packet # NoInstant
    THEN (IF st.last_packet >= st.page_start THEN st.last_packet - st.page_start ELSE 0)
    ELSE IF st.page_start # NoInstant THEN now - st.page_start
    ELSE 0

\* The PageEnded event of handle_page_end, the PageSummary of handle_test_page_end
page_summary(e, st) ==
    [endpoint |-> e, page_number |-> st.page_count, ssrc |-> st.ssrc,
     packets_received |-> st.stats.packets_received,
     packets_lost |-> st.stats.packets_lost,
     duration_ms |-> page_duration(st), recorded |-> st.recorder]

\* test.rs:549-554, 593-598: the file name of page n of endpoint e
recording_file(e, n) == <<"page", n, Endpoints[e].address, Endpoints[e].port>>

\* A page end that would leave the slot as it is.
page_end_without_reset(st) == st

\* handle_page_end / handle_test_page_end: what is left of the slot
handle_page_end(st) == reset_page(st)

RECURSIVE SummariesIn(_, _)
\* The page ends, in iteration order, of the endpoints of `ends` from i on
SummariesIn(i, ends) ==
    IF i > Len(Endpoints) THEN <<>>
    ELSE (IF i \in ends THEN <<page_summary(i, endpoint_states[i])>> ELSE <<>>)
            \o SummariesIn(i + 1, ends)

\* monitor.rs:321, test.rs:372: the run timeout
RxTimeoutExpired ==
    IF options.mode = "monitor"
    THEN options.timeout > 0 /\ now - start_time >= options.timeout
    ELSE now - start_time >= options.timeout

\* monitor.rs:332-334, test.rs:379-381: the idle check of one endpoint at time t
IdleDue(st, t) ==
    st.page_active /\ st.last_packet # NoInstant /\ t - st.last_packet >= IdleTimeoutMs

\* monitor.rs:319-328, test.rs:370-375: the loop ends on the run timeout
RxTimeoutBreak ==
    /\ pc = "top"
    /\ RxTimeoutExpired
    /\ pc' = "finalize"
    /\ UNCHANGED <<now, options, buf, completed_pages, pages_started, received, pmVars, rxVars, auxVars>>

\* monitor.rs:330-389, test.rs:377-399: the supervisor work of one iteration
\* (idle check of every endpoint, periodic statistics), then on to the sockets
RxSupervise ==
    /\ pc = "top"
    /\ ~RxTimeoutExpired
    /\ LET due == {e \in EndpointIds : IdleDue(endpoint_states[e], now)} IN
       /\ completed_pages' = completed_pages \o SummariesIn(1, due)
       /\ endpoint_states' = [e \in EndpointIds |->
              IF e \in due THEN handle_page_end(endpoint_states[e]) ELSE endpoint_states[e]]
    /\ pc' = "recv"
    /\ sock' = 1
    /\ UNCHANGED <<now, options, buf, pages_started, received, errors, summary, pmVars, auxVars>>

\* The earliest time at which the supervisor has something to do.
NextDue(es) ==
    LET idle == {es[e].last_packet + IdleTimeoutMs :
                    e \in {x \in EndpointIds : es[x].page_active /\ es[x].last_packet # NoInstant}}
        run == IF options.timeout > 0 THEN {start_time + options.timeout} ELSE {}
        all == idle \cup run \cup {RxMaxTime}
    IN  CHOOSE t \in all : \A u \in all : t <= u

\* The time of one pass over the sockets in which every receive times out.
SilentPass == Len(Sockets) * RxRecvTimeoutMs

\* While every socket stays silent the loop repeats the same iteration
\* (supervisor with nothing to do, every receive timing out) once per
\* SilentPass.  Back at the top at time t, those iterations are taken at once,
\* up to the last one that starts before the supervisor has something to do.
LastIdleTop(t) ==
    IF t + SilentPass < NextDue(endpoint_states)
    THEN t + ((NextDue(endpoint_states) - 1 - t) \div SilentPass) * SilentPass
    ELSE t

\* monitor.rs:410, test.rs:414: the receive timed out, on to the next socket
\* or back to the top of the loop
RxRecvTimeout ==
    /\ pc = "recv"
    /\ IF sock < Len(Sockets)
       THEN /\ sock' = sock + 1
            /\ now' = RxAdvance(RxRecvTimeoutMs)
            /\ pc' = pc
       ELSE /\ sock' = sock
            /\ LET t == LastIdleTop(now + RxRecvTimeoutMs) IN
               now' = IF t > RxMaxTime THEN RxMaxTime ELSE t
            /\ pc' = "top"
    /\ buf' = NoDatagram
    /\ UNCHANGED <<options, completed_pages, pages_started, received,
                   endpoint_states, errors, summary, pmVars, auxVars>>

\* Datagram d is read from the socket being drained.  The first RxMaxReads
\* datagrams of a run are followed one by one; once the clock has reached its
\* horizon, datagrams that do not parse may keep arriving for ever.
RxReads(d) ==
    /\ pc = "recv"
    /\ d \in RxDatagrams
    /\ now' = RxAdvance(RxArrivalDelay)
    /\ buf' = d
    /\ UNCHANGED <<options, sock, summary, pmVars, auxVars>>

\* monitor.rs:414-416, test.rs:417-419: a datagram that does not parse
RxParseError(d) ==
    /\ RxReads(d)
    /\ ~RtpParse(d).ok
    /\ received < RxMaxReads \/ now = RxMaxTime
    /\ received' = IF received < RxMaxReads THEN received + 1 ELSE received
    /\ UNCHANGED <<pc, completed_pages, pages_started, endpoint_states, errors>>

\* A selection that would offer every endpoint of the socket's port.
every_slot_of_port(p) == {e \in EndpointIds : Endpoints[e].port = Sockets[sock]}

\* monitor.rs:421-424, test.rs:421-424: the endpoints of the socket's port that
\* hold the packet's SSRC or are not active; find() takes the first of them
Candidates(p) ==
    {e \in EndpointIds : /\ Endpoints[e].port = Sockets[sock]
                         /\ (endpoint_states[e].ssrc = p.ssrc \/ ~endpoint_states[e].page_active)}

endpoint_key(p) == CHOOSE e \in Candidates(p) : \A x \in Candidates(p) : e <= x

\* monitor.rs:426, test.rs:426: no endpoint takes the packet, it is discarded
RxDiscard(d) ==
    /\ RxReads(d)
    /\ RtpParse(d).ok
    /\ Candidates(RtpParse(d)) = {}
    /\ received < RxMaxReads
    /\ received' = received + 1
    /\ UNCHANGED <<pc, completed_pages, pages_started, endpoint_states, errors>>

\* A page start that would leave the page counter as it is.
start_without_count(st, p, t) ==
    [st EXCEPT !.ssrc = p.ssrc, !.page_start = t, !.page_active = TRUE,
               !.stats = PageStatsDefault]

\* handle_packet / handle_test_packet, the start of a new page up to the
\* creation of the decoder
StartPage(st, p, t) ==
    [st EXCEPT !.page_count = IF options.mode = "test" THEN @ + 1 ELSE @,
               !.ssrc = p.ssrc, !.page_start = t, !.page_active = TRUE,
               !.stats = PageStatsDefault]

\* handle_packet / handle_test_packet, from the statistics update on
CountPacket(st, p, t) ==
    [st EXCEPT !.stats = stats_update(@, p), !.last_packet = t]

IsNewPage(st, p) == st.ssrc = "None" \/ st.ssrc # p.ssrc

\* handle_packet / handle_test_packet for a packet the decoder can be created for
HandleOk(st, p, t) ==
    IF IsNewPage(st, p)
    THEN CountPacket([StartPage(st, p, t) EXCEPT
                         !.decoder = create_decoder_for_payload_type(p.payload_type),
                         !.recorder = TRUE], p, t)
    ELSE CountPacket(st, p, t)

\* monitor.rs:426-430 with handle_packet, test.rs:426-431 with handle_test_packet
handle_packet(d) ==
    LET p == RtpParse(d)
        e == endpoint_key(p)
        st == endpoint_states[e]
        failed == IsNewPage(st, p) /\ create_decoder_for_payload_type(p.payload_type) = "None"
    IN  /\ RxReads(d)
        /\ p.ok
        /\ Candidates(p) # {}
        /\ received < RxMaxReads
        /\ received' = received + 1
        /\ pages_started' = IF IsNewPage(st, p) THEN pages_started + 1 ELSE pages_started
        /\ endpoint_states' = [endpoint_states EXCEPT
               ![e] = IF failed THEN StartPage(st, p, now') ELSE HandleOk(st, p, now')]
        /\ pc' = IF failed /\ options.mode = "monitor" THEN "exit_err" ELSE pc
        /\ errors' = IF failed /\ options.mode = "test" THEN errors + 1 ELSE errors
        /\ UNCHANGED completed_pages

\* monitor.rs:435-440, test.rs:437-444: finalize any active recordings
RxFinalize ==
    /\ pc = "finalize"
    /\ LET active == {e \in EndpointIds : endpoint_states[e].page_active} IN
       /\ completed_pages' = completed_pages \o SummariesIn(1, active)
       /\ endpoint_states' = [e \in EndpointIds |->
              IF e \in active THEN handle_page_end(endpoint_states[e]) ELSE endpoint_states[e]]
    /\ pc' = "summary"
    /\ UNCHANGED <<now, options, buf, pages_started, received, sock, errors, summary, pmVars, auxVars>>

\* test.rs:446-474: the summary is written and the run returns Ok
\* (monitor.rs:442: the monitor just returns Ok)
RxWriteSummary ==
    /\ pc = "summary"
    /\ summary' = IF options.mode = "test"
                  THEN [pages |-> Len(completed_pages), errors |-> errors]
                  ELSE summary
    /\ pc' = "exit_ok"
    /\ UNCHANGED <<now, options, buf, completed_pages, pages_started, received,
                   endpoint_states, sock, errors, pmVars, auxVars>>

NoSummary == [pages |-> NoInstant, errors |-> NoInstant]

EmptyMap == [x \in {} |-> 0]

PmTimeouts == {DurationMax, 3 * PmRecvTimeoutMs}
PmFilters == {{}, {1}}
RxTimeouts == {RxMaxTime - RxRecvTimeoutMs}
RxModes == {"monitor", "test"}

PmIdle ==
    /\ sessions = EmptyMap
    /\ seen = [c \in PmChannels |-> [alert |-> 0, transmit |-> 0, end |-> 0]]

RxIdle ==
    /\ endpoint_states = [e \in EndpointIds |-> EndpointNew]
    /\ sock = 1
    /\ errors = 0
    /\ summary = NoSummary

\* No transmitter is running.
NoTx == [iteration |-> 0]

AuxIdle ==
    /\ unread = 0
    /\ stream = <<>>
    /\ tx = NoTx
    /\ sent = <<>>

Common ==
    /\ now = 0
    /\ buf = NoDatagram
    /\ completed_pages = <<>>
    /\ pages_started = 0
    /\ received = 0

InitPaging ==
    /\ Common /\ PmIdle /\ RxIdle /\ AuxIdle
    /\ pc = "loop"
    /\ options \in [timeout : PmTimeouts, channel_filter : PmFilters]

InitRtp ==
    /\ Common /\ PmIdle /\ RxIdle /\ AuxIdle
    /\ pc = "top"
    /\ options \in [timeout : RxTimeouts, mode : RxModes]

NextPaging ==
    \/ \E d \in PmDatagrams : handle_alert(d)
    \/ \E d \in PmDatagrams : handle_transmit(d)
    \/ \E d \in PmDatagrams : handle_end(d)
    \/ \E d \in PmDatagrams : PmFiltered(d)
    \/ \E d \in PmDatagrams : PmParseError(d)
    \/ cleanup_stale_sessions
    \/ PmTimeoutBreak
    \/ PmFinalCleanup

NextRtp ==
    \/ RxTimeoutBreak
    \/ RxSupervise
    \/ RxRecvTimeout
    \/ \E d \in RxDatagrams : RxParseError(d)
    \/ \E d \in RxDatagrams : RxDiscard(d)
    \/ \E d \in RxDatagrams : handle_packet(d)
    \/ RxFinalize
    \/ RxWriteSummary

SpecPaging == InitPaging /\ [][NextPaging]_vars
SpecRtp == InitRtp /\ [][NextRtp]_vars

\* The loop always takes its next step; what arrives is up to the network.
FairPaging == SpecPaging /\ WF_vars(NextPaging)
FairRtp == SpecRtp /\ WF_vars(NextRtp)

Init == InitPaging \/ InitRtp
Next == NextPaging \/ NextRtp
Spec == Init /\ [][Next]_vars

(***************************************************************************)
(* The paging monitor on a pattern that covers two ports: one socket is    *)
(* created per port (polycom_monitor.rs:76-94) and the loop receives from   *)
(* sockets[0] alone (polycom_monitor.rs:123-126).  `unread` counts the      *)
(* datagrams that have arrived at the sockets after sockets[0].             *)
(***************************************************************************)
MaxUnread == 1           \* bound: datagrams that arrive at the other sockets

InitPorts ==
    /\ Common /\ PmIdle /\ RxIdle /\ AuxIdle
    /\ pc = "loop"
    /\ options \in [timeout : PmTimeouts \ {DurationMax}, channel_filter : {{1}}, ports : {2}]

\* A datagram for a joined group arrives at a socket other than sockets[0];
\* no statement of the loop reads from that socket.
PmOtherPort ==
    /\ pc = "loop"
    /\ options.ports > 1
    /\ unread < MaxUnread
    /\ unread' = unread + 1
    /\ UNCHANGED <<now, pc, options, buf, completed_pages, pages_started, received,
                   pmVars, rxVars, stream, tx, sent>>

NextPorts == NextPaging \/ PmOtherPort

SpecPorts == InitPorts /\ [][NextPorts]_vars

(***************************************************************************)
(* PageStats::update on its own: one page of one endpoint is handed a      *)
(* stream of packets with sequence numbers drawn from StatSeqs, as         *)
(* handle_packet hands them to the statistics of its slot.                 *)
(***************************************************************************)
MaxStatPackets == 3      \* bound: packets of the stream

StatSeqs == {0, 1, 2, 1000, 1001, 65535}

InitStats ==
    /\ Common /\ PmIdle /\ RxIdle /\ AuxIdle
    /\ pc = "stats"
    /\ options \in [timeout : RxTimeouts, mode : RxModes]

\* monitor.rs:498, test.rs:560: state.stats.update(packet)
StatsUpdate(seq) ==
    /\ pc = "stats"
    /\ Len(stream) < MaxStatPackets
    /\ stream' = Append(stream, seq)
    /\ endpoint_states' = [endpoint_states EXCEPT
           ![1].stats = stats_update(@, [sequence_number |-> seq])]
    /\ UNCHANGED <<now, pc, options, buf, completed_pages, pages_started, received,
                   sock, errors, summary, pmVars, unread, tx, sent>>

NextStats == \E seq \in StatSeqs : StatsUpdate(seq)

SpecStats == InitStats /\ [][NextStats]_vars

(***************************************************************************)
(* PolycomPacketBuilder (polycom.rs) and what the parser makes of the      *)
(* packets it builds.  A u32 is kept as its two 16-bit halves.  The audio  *)
(* data of a packet is the sequence of the frames appended to it; every    *)
(* frame handed to the builder is frame_size bytes long (raw mode pads to  *)
(* frame_size, encode_all returns frames of 160 bytes).                    *)
(***************************************************************************)
U32(hi, lo) == [hi |-> hi, lo |-> lo]

\* u32::wrapping_add, for n below 2^16
wrapping_add(x, n) ==
    U32((x.hi + (x.lo + n) \div 65536) % 65536, (x.lo + n) % 65536)

\* u32::to_be_bytes, u32::to_le_bytes, u32::from_be_bytes
to_be_bytes(x) == <<x.hi \div 256, x.hi % 256, x.lo \div 256, x.lo % 256>>
to_le_bytes(x) == <<x.lo % 256, x.lo \div 256, x.hi % 256, x.hi \div 256>>
from_be_bytes(b) == U32(b[1] * 256 + b[2], b[3] * 256 + b[4])

\* PolycomCodec::to_byte, sample_rate, frame_duration_ms
to_byte(codec) ==
    IF codec = "G711U" THEN CODEC_G711U
    ELSE IF codec = "G711A" THEN CODEC_G711A
    ELSE CODEC_G722
sample_rate(codec) == IF codec = "G722" THEN 16000 ELSE 8000
frame_duration_ms == 20

\* The PCM samples of one frame of a codec: 160 for G.711, 320 for G.722.
frame_samples(codec) == (sample_rate(codec) * frame_duration_ms) \div 1000

\* generate_initial_sample_count: some u32 taken from the clock; one of the
\* values is a frame short of the wrap.
Seeds == {U32(1, 0), U32(65535, 65536 - G711_FRAME_SIZE)}

\* PolycomPacketBuilder::new followed by the three setters
BuilderNew(codec, seed, skip_redundant, little_endian) ==
    [codec |-> codec, sample_count |-> seed, previous_frame |-> <<>>,
     skip_redundant |-> skip_redundant, skip_audio_header |-> FALSE,
     little_endian |-> little_endian]

\* PolycomHeader::encode alone (alert, end) or followed by the audio part
Packet(op, codec, counter, audio) ==
    [op |-> op, channel |-> 1, caller_id_len |-> 13,
     len |-> HeaderLen20 + Len(counter) + (IF counter = <<>> THEN 0 ELSE 2)
                 + Len(audio) * frame_size(codec),
     codec |-> to_byte(codec), counter |-> counter, audio |-> audio]

build_alert(b) == Packet(OP_ALERT, b.codec, <<>>, <<>>)
build_end(b) == Packet(OP_END, b.codec, <<>>, <<>>)

\* A builder that would keep no previous frame.
advance_without_previous(b, audio_frame) ==
    [b EXCEPT !.sample_count = wrapping_add(@, frame_size(b.codec))]

\* build_transmit: the state of the builder after the call
build_transmit_state(b, audio_frame) ==
    [b EXCEPT !.previous_frame = <<audio_frame>>,
              !.sample_count = wrapping_add(@, frame_size(b.codec))]

\* build_transmit: the packet
build_transmit(b, audio_frame) ==
    IF b.skip_audio_header
    THEN Packet(OP_TRANSMIT, b.codec, <<>>, <<audio_frame>>)
    ELSE Packet(OP_TRANSMIT, b.codec,
                IF b.little_endian THEN to_le_bytes(b.sample_count)
                                   ELSE to_be_bytes(b.sample_count),
                (IF b.skip_redundant THEN <<>> ELSE b.previous_frame) \o <<audio_frame>>)

\* A reset that would keep the previous frame.
reset_keeps_previous(b, seed) == [b EXCEPT !.sample_count = seed]

\* PolycomPacketBuilder::reset
reset(b, seed) == [b EXCEPT !.sample_count = seed, !.previous_frame = <<>>]

\* parse_with_time on a Transmit packet: AudioHeader::parse reads the counter
\* big-endian, the audio data is cut at multiples of frame_size.
ParseTransmit(d) ==
    LET p == PolycomParse(d) IN
    [sample_count |-> from_be_bytes(d.counter),
     redundant_frame |-> IF p.redundant_frame THEN <<d.audio[1]>> ELSE <<>>,
     audio_frame |-> IF p.redundant_frame THEN <<d.audio[2]>>
                     ELSE IF p.audio_frame THEN <<d.audio[1]>> ELSE <<>>]

(***************************************************************************)
(* run_polycom_transmit (polycom_transmit.rs): the page loop.  One action  *)
(* is one send with the sleeps around it, or the passage from one phase to *)
(* the next.  `sent` logs every datagram handed to socket.send_to with the *)
(* time of the call; tx.t0 and tx.seed remember the first deadline of the  *)
(* audio phase and the seed of the builder, tx.late counts the sends that  *)
(* took longer than a frame.                                               *)
(***************************************************************************)
MaxFrames == 3           \* bound: encoded frames of the audio file
MaxControl == 2          \* bound: alert_count and end_count
MaxLoops == 2            \* bound: pages sent with --loop
MaxLate == 1             \* bound: sends that take longer than a frame

post_alert_delay_ms == 64
pre_end_delay_ms == 50
control_interval_default == 30

\* How long socket.send_to of an audio packet may take: no time, or a frame
\* and a half.
SendDelays == {0, frame_duration_ms + frame_duration_ms \div 2}

\* A schedule that would count the next deadline from the end of the send.
schedule_after_send(next_send_time, finished) == finished + frame_duration_ms

\* polycom_transmit.rs:256, next_send_time += frame_duration
schedule_next(next_send_time, finished) == next_send_time + frame_duration_ms

TxOptions ==
    [codec : {"G711U", "G722"}, frames : {1, MaxFrames},
     alert_count : {MaxControl}, end_count : {MaxControl},
     control_interval : {control_interval_default},
     skip_alert : BOOLEAN, skip_end : BOOLEAN, no_redundant : BOOLEAN,
     little_endian : BOOLEAN, loop_audio : BOOLEAN]

InitTx ==
    /\ Common /\ PmIdle /\ RxIdle
    /\ unread = 0 /\ stream = <<>> /\ sent = <<>>
    /\ pc = "tx_prepare"
    /\ options \in TxOptions
    /\ \E seed \in Seeds :
         tx = [iteration |-> 0, i |-> 0, next_send_time |-> 0, t0 |-> 0, seed |-> seed,
               late |-> 0,
               builder |-> BuilderNew(options.codec, seed, options.no_redundant,
                                      options.little_endian)]

\* socket.send_to(&packet, dest) at the present time
Send(packet) == Append(sent, [at |-> now, iteration |-> tx.iteration, pkt |-> packet])

\* The entries of the log that were sent in page (or pass) `it`.
RECURSIVE PageIn(_, _)
PageIn(log, it) ==
    IF log = <<>> THEN <<>>
    ELSE IF log[1].iteration = it THEN <<log[1]>> \o PageIn(Tail(log), it)
         ELSE PageIn(Tail(log), it)

PageLog(it) == PageIn(sent, it)

TxUnchanged == <<options, buf, completed_pages, pages_started, received,
                 pmVars, rxVars, unread, stream>>

\* polycom_transmit.rs:140-203, the top of the loop: the frames are prepared
TxPrepare ==
    /\ pc = "tx_prepare"
    /\ tx' = [tx EXCEPT !.iteration = @ + 1, !.i = 0]
    /\ pc' = "tx_alert"
    /\ UNCHANGED <<now, sent, TxUnchanged>>

\* polycom_transmit.rs:213-221, one pass of the alert loop
TxAlert ==
    /\ pc = "tx_alert"
    /\ ~options.skip_alert
    /\ tx.i < options.alert_count
    /\ sent' = Send(build_alert(tx.builder))
    /\ now' = IF tx.i < options.alert_count - 1 THEN now + options.control_interval ELSE now
    /\ tx' = [tx EXCEPT !.i = @ + 1]
    /\ UNCHANGED <<pc, TxUnchanged>>

\* polycom_transmit.rs:229-241, after the alerts (or without them): the 64 ms
\* delay, then next_send_time = Instant::now()
TxStartAudio ==
    /\ pc = "tx_alert"
    /\ options.skip_alert \/ tx.i = options.alert_count
    /\ now' = IF options.skip_alert THEN now ELSE now + post_alert_delay_ms
    /\ tx' = [tx EXCEPT !.i = 0, !.next_send_time = now', !.t0 = now']
    /\ pc' = "tx_audio"
    /\ UNCHANGED <<sent, TxUnchanged>>

\* polycom_transmit.rs:243-256, one pass of the audio loop: sleep until
\* next_send_time, build, send (which takes delay ms), schedule the next frame
TxAudio(delay) ==
    /\ pc = "tx_audio"
    /\ tx.i < options.frames
    /\ delay > 0 => tx.late < MaxLate
    /\ LET at == IF tx.next_send_time > now THEN tx.next_send_time ELSE now
           frame == tx.i + 1
       IN  /\ sent' = Append(sent, [at |-> at, iteration |-> tx.iteration,
                                    pkt |-> build_transmit(tx.builder, frame)])
           /\ now' = at + delay
           /\ tx' = [tx EXCEPT !.i = @ + 1,
                               !.late = IF delay > 0 THEN @ + 1 ELSE @,
                               !.builder = build_transmit_state(@, frame),
                               !.next_send_time = schedule_next(@, at + delay)]
    /\ UNCHANGED <<pc, TxUnchanged>>

\* polycom_transmit.rs:271-279, after the last frame: the 50 ms wait before
\* the End packets, unless they are skipped
TxStartEnd ==
    /\ pc = "tx_audio"
    /\ tx.i = options.frames
    /\ now' = IF options.skip_end THEN now ELSE now + pre_end_delay_ms
    /\ tx' = [tx EXCEPT !.i = 0]
    /\ pc' = "tx_end"
    /\ UNCHANGED <<sent, TxUnchanged>>

\* polycom_transmit.rs:287-295, one pass of the end loop
TxEnd ==
    /\ pc = "tx_end"
    /\ ~options.skip_end
    /\ tx.i < options.end_count
    /\ sent' = Send(build_end(tx.builder))
    /\ now' = IF tx.i < options.end_count - 1 THEN now + options.control_interval ELSE now
    /\ tx' = [tx EXCEPT !.i = @ + 1]
    /\ UNCHANGED <<pc, TxUnchanged>>

\* polycom_transmit.rs:305-314, builder.reset() and the end of the loop body
TxReset ==
    /\ pc = "tx_end"
    /\ options.skip_end \/ tx.i = options.end_count
    /\ ~options.loop_audio \/ tx.iteration < MaxLoops
    /\ \E seed \in Seeds :
         tx' = [tx EXCEPT !.builder = reset(@, seed), !.seed = seed]
    /\ pc' = IF options.loop_audio THEN "tx_prepare" ELSE "tx_done"
    /\ UNCHANGED <<now, sent, TxUnchanged>>

NextTx ==
    \/ TxPrepare
    \/ TxAlert
    \/ TxStartAudio
    \/ \E delay \in SendDelays : TxAudio(delay)
    \/ TxStartEnd
    \/ TxEnd
    \/ TxReset

SpecTx == InitTx /\ [][NextTx]_vars

(***************************************************************************)
(* run_transmit (transmit.rs): the RTP transmitter.  One action is one     *)
(* pass of the chunk loop: pad, encode, build, send, advance, pace.  A     *)
(* pass starts its sequence number and timestamp at 0, so the 16-bit wrap  *)
(* of the sequence number lies 65536 frames into a pass.                   *)
(***************************************************************************)
MaxSamples == 640        \* bound: samples of the audio file

SampleCounts ==
    {0, 100, G711_FRAME_SIZE, 2 * G711_FRAME_SIZE + G711_FRAME_SIZE \div 2, MaxSamples}

\* AudioEncoder::frame_size: the samples the encoder takes per frame
encoder_frame_size(codec) == IF codec = "G722" THEN 320 ELSE 160

\* CodecType::payload_type
payload_type(codec) == IF codec = "G722" THEN 9 ELSE 0

\* A slicing that would drop the partial chunk at the end.
chunks_exact(len, size) == len \div size

\* slice::chunks: the number of chunks of a slice of len elements
chunks(len, size) == (len + size - 1) \div size

\* RtpPacket::build with marker = false
RtpBuild(pt, sequence, timestamp, ssrc, payload_len) ==
    [len |-> RtpMinLen + payload_len, version |-> RtpVersion, padding |-> FALSE,
     extension |-> FALSE, csrc_count |-> 0, ext_words |-> 0, last_byte |-> 0,
     payload_type |-> pt % 128, sequence_number |-> sequence,
     timestamp |-> to_be_bytes(timestamp), ssrc |-> ssrc]

InitRtpTx ==
    /\ Common /\ PmIdle /\ RxIdle
    /\ unread = 0 /\ stream = <<>> /\ sent = <<>>
    /\ pc = "rtp_read"
    /\ options \in [codec : {"G711Ulaw", "G722"}, samples : SampleCounts,
                    loop_audio : BOOLEAN]
    /\ \E ssrc \in {"A", "B"} :
         tx = [iteration |-> 0, ssrc |-> ssrc, sequence |-> 0, timestamp |-> U32(0, 0),
               samples_sent |-> 0, start |-> 0]

\* transmit.rs:74-87, the top of the loop: the file is read, the counters start
RtpTxStart ==
    /\ pc = "rtp_read"
    /\ tx' = [tx EXCEPT !.iteration = @ + 1, !.sequence = 0, !.timestamp = U32(0, 0),
                        !.samples_sent = 0, !.start = now]
    /\ pc' = "rtp_send"
    /\ UNCHANGED <<now, sent, TxUnchanged>>

\* transmit.rs:92-135, one chunk: padded to a frame, encoded, sent, then the
\* sleep until start + samples_sent / sample_rate
RtpTxSend ==
    /\ pc = "rtp_send"
    /\ Len(PageLog(tx.iteration)) < chunks(options.samples, encoder_frame_size(options.codec))
    /\ LET size == encoder_frame_size(options.codec)
           rest == options.samples - tx.samples_sent
           chunk_len == IF rest < size THEN rest ELSE size
           zeros == size - chunk_len
           expected == tx.start + ((tx.samples_sent + chunk_len) * 1000) \div sample_rate(options.codec)
       IN  /\ sent' = Append(sent, [at |-> now, iteration |-> tx.iteration,
                                    chunk |-> chunk_len, zeros |-> zeros,
                                    pkt |-> RtpBuild(payload_type(options.codec), tx.sequence,
                                                     tx.timestamp, tx.ssrc, G711_FRAME_SIZE)])
           /\ tx' = [tx EXCEPT !.sequence = (@ + 1) % 65536,
                               !.timestamp = wrapping_add(@, size),
                               !.samples_sent = @ + chunk_len]
           /\ now' = IF expected > now THEN expected ELSE now
    /\ UNCHANGED <<pc, TxUnchanged>>

\* transmit.rs:138-146, after the last chunk: break, or the next pass
RtpTxEndPass ==
    /\ pc = "rtp_send"
    /\ Len(PageLog(tx.iteration)) = chunks(options.samples, encoder_frame_size(options.codec))
    /\ ~options.loop_audio \/ tx.iteration < MaxLoops
    /\ pc' = IF options.loop_audio THEN "rtp_read" ELSE "rtp_done"
    /\ UNCHANGED <<now, tx, sent, TxUnchanged>>

NextRtpTx == RtpTxStart \/ RtpTxSend \/ RtpTxEndPass

SpecRtpTx == InitRtpTx /\ [][NextRtpTx]_vars

(***************************************************************************)
(* Functions checked on their own.  A run takes an input, drawn from a     *)
(* bounded set by the initial state, through the function or the pair of   *)
(* functions under study: `options` holds the input, `buf` the             *)
(* intermediate value and `stream` the results.                            *)
(***************************************************************************)
FnUnchanged == <<now, options, completed_pages, pages_started, received,
                 pmVars, rxVars, unread, tx, sent>>

FnIdle ==
    /\ Common /\ PmIdle /\ RxIdle
    /\ unread = 0 /\ stream = <<>> /\ tx = NoTx /\ sent = <<>>

\* The sequence of n bytes b.
Repeat(b, n) == [i \in 1..n |-> b]

\* Iterator::position(|&b| b == 0).unwrap_or(len)
NulPosition(bytes) ==
    IF \E i \in DOMAIN bytes : bytes[i] = 0
    THEN (CHOOSE i \in DOMAIN bytes : bytes[i] = 0 /\ \A j \in 1..(i - 1) : bytes[j] # 0) - 1
    ELSE Len(bytes)

(***************************************************************************)
(* PolycomHeader::encode and PolycomHeader::parse on the bytes.  A caller  *)
(* ID is the sequence of the bytes of the String.                          *)
(***************************************************************************)
MaxShortCid == 2         \* bound: length of the caller IDs that are enumerated in full
MIN_CALLER_ID_LEN == 13
CallerIdMax == 255

CidBytes == {0, 65, 66}

CallerIds ==
    UNION {[1..n -> CidBytes] : n \in 0..MaxShortCid}
        \cup {Repeat(65, n) : n \in {MIN_CALLER_ID_LEN - 1, MIN_CALLER_ID_LEN,
                                     MIN_CALLER_ID_LEN + 1, CallerIdMax, CallerIdMax + 1}}
        \cup {Repeat(65, MIN_CALLER_ID_LEN) \o <<0, 66>>}

Headers ==
    [packet_type : {"Alert", "Transmit", "End"}, channel : {1, ChannelMax},
     host_serial : {<<171, 205, 239, 1>>}, caller_id : CallerIds]

\* PacketType::to_op_code
to_op_code(ty) ==
    IF ty = "Alert" THEN OP_ALERT ELSE IF ty = "Transmit" THEN OP_TRANSMIT ELSE OP_END

\* An encoder that would write the caller ID without the padding.
encode_without_padding(h) ==
    [ok |-> TRUE,
     bytes |-> <<to_op_code(h.packet_type), h.channel>> \o h.host_serial
                   \o <<Len(h.caller_id)>> \o h.caller_id]

\* PolycomHeader::encode
header_encode(h) ==
    IF Len(h.caller_id) > CallerIdMax THEN ParseErr("CallerIdTooLong")
    ELSE LET n == Len(h.caller_id)
             padded_len == IF n > MIN_CALLER_ID_LEN THEN n ELSE MIN_CALLER_ID_LEN
         IN  [ok |-> TRUE,
              bytes |-> <<to_op_code(h.packet_type), h.channel>> \o h.host_serial
                            \o <<padded_len % 256>> \o h.caller_id
                            \o Repeat(0, padded_len - n)]

\* PolycomHeader::parse
header_parse(data) ==
    IF Len(data) < MinHeaderLen THEN ParseErr("TooShort")
    ELSE IF from_op_code(data[1]) = "None" THEN ParseErr("InvalidOpCode")
    ELSE IF data[2] = 0 \/ data[2] > ChannelMax THEN ParseErr("InvalidChannel")
    ELSE IF Len(data) < MinHeaderLen + data[7] THEN ParseErr("Truncated")
    ELSE LET caller_id_bytes == SubSeq(data, MinHeaderLen + 1, MinHeaderLen + data[7]) IN
         [ok |-> TRUE,
          header |-> [packet_type |-> from_op_code(data[1]), channel |-> data[2],
                      host_serial |-> SubSeq(data, 3, 6),
                      caller_id |-> SubSeq(caller_id_bytes, 1, NulPosition(caller_id_bytes))],
          header_len |-> MinHeaderLen + data[7]]

InitHeader ==
    /\ FnIdle
    /\ pc = "header"
    /\ options \in Headers

\* header.encode()
HeaderEncode ==
    /\ pc = "header"
    /\ buf' = header_encode(options)
    /\ pc' = IF buf'.ok THEN "header_encoded" ELSE "header_error"
    /\ UNCHANGED <<stream, FnUnchanged>>

\* PolycomHeader::parse(&encoded)
HeaderParse ==
    /\ pc = "header_encoded"
    /\ stream' = <<header_parse(buf.bytes)>>
    /\ pc' = "header_parsed"
    /\ UNCHANGED <<buf, FnUnchanged>>

NextHeader == HeaderEncode \/ HeaderParse

SpecHeader == InitHeader /\ [][NextHeader]_vars

(***************************************************************************)
(* RtpPacket::parse_with_time and RtpPacket::build on the bytes (rtp.rs).  *)
(* The inputs are datagrams put together from a first byte, a second byte,  *)
(* the ten bytes that follow, an optional CSRC word, an optional extension  *)
(* header with or without a word of extension data and a short body, with   *)
(* some bytes cut off the end.                                              *)
(***************************************************************************)
MaxBody == 2             \* bound: bytes after the headers

RtpBodies == UNION {[1..n -> {0, 1, 2}] : n \in 0..MaxBody}
RtpCuts == {0, 2, 5, 9}

\* The bytes of a datagram: V, P, X, CC, M, PT as given, one CSRC word when
\* cc = 1, an extension header declaring ext_words words and holding one when
\* x is set, then the body; the last `cut` bytes are missing.
RtpBytes(v, p, x, cc, m, pt, ext_words, body, cut) ==
    LET first == v * 64 + (IF p THEN 32 ELSE 0) + (IF x THEN 16 ELSE 0) + cc
        second == (IF m THEN 128 ELSE 0) + pt
        whole == <<first, second, 255, 255, 255, 255, 255, 96, 1, 2, 3, 4>>
                     \o (IF cc = 1 THEN <<9, 9, 9, 9>> ELSE <<>>)
                     \o (IF x THEN <<190, 222, 0, ext_words>> \o Repeat(7, 4 * ext_words) ELSE <<>>)
                     \o body
    IN  SubSeq(whole, 1, IF Len(whole) > cut THEN Len(whole) - cut ELSE 0)

RtpInputs ==
    {RtpBytes(v, p, x, cc, m, pt, w, body, cut) :
        v \in {1, 2}, p \in BOOLEAN, x \in BOOLEAN, cc \in {0, 1}, m \in BOOLEAN,
        pt \in {0, 127}, w \in {0, 1}, body \in RtpBodies, cut \in RtpCuts}

\* u16::from_be_bytes, u16::to_be_bytes
u16_from_be_bytes(b) == b[1] * 256 + b[2]
u16_to_be_bytes(n) == <<n \div 256, n % 256>>

\* A parser that would take every datagram of 12 bytes or more as a packet
\* with nothing but the fixed header before the payload.
parse_fixed_header_only(data) ==
    IF Len(data) < RtpMinLen THEN ParseErr("TooShort")
    ELSE [ok |-> TRUE, payload_start |-> RtpMinLen, payload_end |-> Len(data),
          payload |-> SubSeq(data, RtpMinLen + 1, Len(data)),
          header |-> [version |-> data[1] \div 64, padding |-> (data[1] \div 32) % 2 = 1,
                      extension |-> (data[1] \div 16) % 2 = 1, csrc_count |-> data[1] % 16,
                      marker |-> data[2] \div 128 = 1, payload_type |-> data[2] % 128,
                      sequence_number |-> u16_from_be_bytes(SubSeq(data, 3, 4)),
                      timestamp |-> from_be_bytes(SubSeq(data, 5, 8)),
                      ssrc |-> from_be_bytes(SubSeq(data, 9, 12))]]

\* RtpPacket::parse_with_time; payload_start and payload_end are the offsets
\* header_len and payload_end of data[header_len..payload_end]
rtp_parse(data) ==
    IF Len(data) < RtpMinLen THEN ParseErr("TooShort")
    ELSE IF data[1] \div 64 # RtpVersion THEN ParseErr("InvalidVersion")
    ELSE
    LET padding == (data[1] \div 32) % 2 = 1
        extension == (data[1] \div 16) % 2 = 1
        csrc_count == data[1] % 16
        csrc_end == RtpMinLen + csrc_count * 4
    IN  IF Len(data) < csrc_end THEN ParseErr("Truncated")
        ELSE IF extension /\ Len(data) < csrc_end + 4 THEN ParseErr("Truncated")
        ELSE
        LET header_len ==
                IF extension
                THEN csrc_end + 4 + u16_from_be_bytes(SubSeq(data, csrc_end + 3, csrc_end + 4)) * 4
                ELSE csrc_end
        IN  IF Len(data) < header_len THEN ParseErr("Truncated")
            ELSE IF padding /\ (data[Len(data)] = 0 \/ data[Len(data)] > Len(data) - header_len)
                 THEN ParseErr("InvalidPadding")
            ELSE
            LET payload_end == IF padding THEN Len(data) - data[Len(data)] ELSE Len(data) IN
            [ok |-> TRUE, payload_start |-> header_len, payload_end |-> payload_end,
             payload |-> SubSeq(data, header_len + 1, payload_end),
             header |-> [version |-> data[1] \div 64, padding |-> padding,
                         extension |-> extension, csrc_count |-> csrc_count,
                         marker |-> data[2] \div 128 = 1, payload_type |-> data[2] % 128,
                         sequence_number |-> u16_from_be_bytes(SubSeq(data, 3, 4)),
                         timestamp |-> from_be_bytes(SubSeq(data, 5, 8)),
                         ssrc |-> from_be_bytes(SubSeq(data, 9, 12))]]

\* A builder that would leave the marker bit out.
build_without_marker(pt, sequence_number, timestamp, ssrc, payload, marker) ==
    <<128, pt % 128>> \o u16_to_be_bytes(sequence_number) \o to_be_bytes(timestamp)
        \o to_be_bytes(ssrc) \o payload

\* RtpPacket::build
rtp_build(pt, sequence_number, timestamp, ssrc, payload, marker) ==
    <<128, (IF marker THEN 128 ELSE 0) + (pt % 128)>> \o u16_to_be_bytes(sequence_number)
        \o to_be_bytes(timestamp) \o to_be_bytes(ssrc) \o payload

InitRtpCodec ==
    /\ FnIdle
    /\ pc = "rtp_bytes"
    /\ options \in RtpInputs

\* RtpPacket::parse(x)
RtpParseInput ==
    /\ pc = "rtp_bytes"
    /\ stream' = <<rtp_parse(options)>>
    /\ pc' = IF stream'[1].ok THEN "rtp_parsed" ELSE "rtp_rejected"
    /\ UNCHANGED <<buf, FnUnchanged>>

\* RtpPacket::build from the fields and the payload of the parsed packet
RtpRebuild ==
    /\ pc = "rtp_parsed"
    /\ LET h == stream[1].header IN
       buf' = [bytes |-> rtp_build(h.payload_type, h.sequence_number, h.timestamp, h.ssrc,
                                   stream[1].payload, h.marker)]
    /\ pc' = "rtp_rebuilt"
    /\ UNCHANGED <<stream, FnUnchanged>>

\* RtpPacket::parse of what was built
RtpReparse ==
    /\ pc = "rtp_rebuilt"
    /\ stream' = Append(stream, rtp_parse(buf.bytes))
    /\ pc' = "rtp_reparsed"
    /\ UNCHANGED <<buf, FnUnchanged>>

NextRtpCodec == RtpParseInput \/ RtpRebuild \/ RtpReparse

SpecRtpCodec == InitRtpCodec /\ [][NextRtpCodec]_vars

(***************************************************************************)
(* MulticastSocket (multicast.rs): join, leave and leave_all.  tx holds    *)
(* the joined_groups of the socket, the result of the last call, the       *)
(* number of calls made and, as history, the groups whose join returned Ok *)
(* and that no leave or leave_all that returned Ok has removed since.  A   *)
(* call into the operating system may fail.                                *)
(***************************************************************************)
MaxCalls == 5            \* bound: calls made on the socket

McastGroups == {<<224, 0, 1, 1>>, <<239, 255, 255, 255>>}
Addresses == McastGroups \cup {<<192, 168, 1, 1>>, <<240, 0, 0, 1>>}

\* Ipv4Addr::is_multicast: the first four bits are 1110
is_multicast(addr) == addr[1] \div 16 = 14

McResult(joined_groups, result) == [joined_groups |-> joined_groups, result |-> result]

\* A join that would enter the group in the set before it asks the system.
join_enters_first(joined_groups, group, os_ok) ==
    IF ~is_multicast(group) THEN McResult(joined_groups, "NotMulticast")
    ELSE IF group \in joined_groups THEN McResult(joined_groups, "AlreadyJoined")
    ELSE McResult(joined_groups \cup {group}, IF os_ok THEN "Ok" ELSE "Socket")

\* MulticastSocket::join
join(joined_groups, group, os_ok) ==
    IF ~is_multicast(group) THEN McResult(joined_groups, "NotMulticast")
    ELSE IF group \in joined_groups THEN McResult(joined_groups, "AlreadyJoined")
    ELSE IF ~os_ok THEN McResult(joined_groups, "Socket")
    ELSE McResult(joined_groups \cup {group}, "Ok")

\* MulticastSocket::leave
leave(joined_groups, group, os_ok) ==
    IF group \notin joined_groups THEN McResult(joined_groups, "NotMember")
    ELSE IF ~os_ok THEN McResult(joined_groups, "Socket")
    ELSE McResult(joined_groups \ {group}, "Ok")

\* MulticastSocket::leave_all; os_ok: every leave_multicast_v4 of the loop
\* succeeds (there is none to fail when the set is empty)
leave_all(joined_groups, os_ok) ==
    IF joined_groups # {} /\ ~os_ok THEN McResult(joined_groups, "Socket")
    ELSE McResult({}, "Ok")

\* MulticastSocket::new (no group) or bound_to_group (its group)
InitMcast ==
    /\ Common /\ PmIdle /\ RxIdle
    /\ unread = 0 /\ stream = <<>> /\ sent = <<>>
    /\ pc = "socket"
    /\ options = [port |-> 5004]
    /\ \E start \in {{}} \cup {{g} : g \in McastGroups} :
         tx = [joined_groups |-> start, joined_ok |-> start, op |-> "new",
               result |-> "Ok", calls |-> 0]

McUnchanged == <<now, pc, options, buf, completed_pages, pages_started, received,
                 pmVars, rxVars, unread, stream, sent>>

\* One call: the socket takes the set of the result; the history follows the
\* calls that returned Ok.
McCall(op, r, joined_ok) ==
    /\ tx.calls < MaxCalls
    /\ tx' = [joined_groups |-> r.joined_groups,
              joined_ok |-> IF r.result = "Ok" THEN joined_ok ELSE tx.joined_ok,
              op |-> op, result |-> r.result, calls |-> tx.calls + 1]
    /\ UNCHANGED McUnchanged

McJoin(group, os_ok) ==
    pc = "socket" /\ McCall("join", join(tx.joined_groups, group, os_ok), tx.joined_ok \cup {group})

McLeave(group, os_ok) ==
    pc = "socket" /\ McCall("leave", leave(tx.joined_groups, group, os_ok), tx.joined_ok \ {group})

McLeaveAll(os_ok) ==
    pc = "socket" /\ McCall("leave_all", leave_all(tx.joined_groups, os_ok), {})

NextMcast ==
    \/ \E group \in Addresses, os_ok \in BOOLEAN : McJoin(group, os_ok)
    \/ \E group \in Addresses, os_ok \in BOOLEAN : McLeave(group, os_ok)
    \/ \E os_ok \in BOOLEAN : McLeaveAll(os_ok)

SpecMcast == InitMcast /\ [][NextMcast]_vars

(***************************************************************************)
(* The start of run_test (test.rs): validation of the options, then the    *)
(* output directory, the sockets, the endpoint states and the metrics      *)
(* file.  stream lists what the run has created so far; a run that got     *)
(* through goes on with the receive loop above.  The expansion of the      *)
(* pattern (utils::range_parser) is given by its result: an error, no      *)
(* endpoint, or the endpoints of the model.                                *)
(***************************************************************************)
TestPatterns == {"unparseable", "empty", "range"}
TestTimeouts == {0} \cup RxTimeouts
OsFailures == {"none", "create_dir", "socket", "join", "metrics"}

parse_range(pattern) ==
    CASE pattern = "unparseable" -> [ok |-> FALSE, endpoints |-> <<>>]
      [] pattern = "empty" -> [ok |-> TRUE, endpoints |-> <<>>]
      [] OTHER -> [ok |-> TRUE, endpoints |-> Endpoints]

TestStarted(result, effects) == [result |-> result, effects |-> effects]

\* A start that would look at the options only once the sockets are open.
start_validates_late(opts, fails) ==
    LET parsed == parse_range(opts.pattern) IN
    IF fails = "create_dir" THEN TestStarted("Io", <<>>)
    ELSE IF ~parsed.ok THEN TestStarted("InvalidPattern", <<"output_dir">>)
    ELSE IF fails = "socket" /\ parsed.endpoints # <<>>
         THEN TestStarted("Network", <<"output_dir">>)
    ELSE IF fails = "join" /\ parsed.endpoints # <<>>
         THEN TestStarted("Network", <<"output_dir", "socket">>)
    ELSE IF opts.timeout = 0
         THEN TestStarted("InvalidTimeout", <<"output_dir", "socket">>)
    ELSE IF parsed.endpoints = <<>>
         THEN TestStarted("NoEndpoints", <<"output_dir", "socket">>)
    ELSE IF fails = "metrics"
         THEN TestStarted("Io", <<"output_dir", "socket", "endpoint_states">>)
    ELSE TestStarted("Ok", <<"output_dir", "socket", "endpoint_states", "metrics_file">>)

\* test.rs:304-351: run_test up to the loop; fails names the call into the
\* operating system that fails, if one does
run_test_start(opts, fails) ==
    LET parsed == parse_range(opts.pattern) IN
    IF opts.timeout = 0 THEN TestStarted("InvalidTimeout", <<>>)
    ELSE IF fails = "create_dir" THEN TestStarted("Io", <<>>)
    ELSE IF ~parsed.ok THEN TestStarted("InvalidPattern", <<"output_dir">>)
    ELSE IF parsed.endpoints = <<>> THEN TestStarted("NoEndpoints", <<"output_dir">>)
    ELSE IF fails = "socket" THEN TestStarted("Network", <<"output_dir">>)
    ELSE IF fails = "join" THEN TestStarted("Network", <<"output_dir", "socket">>)
    ELSE IF fails = "metrics"
         THEN TestStarted("Io", <<"output_dir", "socket", "endpoint_states">>)
    ELSE TestStarted("Ok", <<"output_dir", "socket", "endpoint_states", "metrics_file">>)

InitTest ==
    /\ Common /\ PmIdle
    /\ endpoint_states = EmptyMap /\ sock = 1 /\ errors = 0 /\ summary = NoSummary
    /\ unread = 0 /\ stream = <<>> /\ tx = NoTx /\ sent = <<>>
    /\ pc = "start"
    /\ options \in [timeout : TestTimeouts, mode : {"test"}, pattern : TestPatterns]

RunTestStart(fails) ==
    /\ pc = "start"
    /\ LET r == run_test_start(options, fails) IN
       /\ stream' = r.effects
       /\ tx' = [iteration |-> 0, result |-> r.result]
       /\ pc' = IF r.result = "Ok" THEN "top" ELSE "exit_err"
       /\ endpoint_states' =
              IF \E i \in DOMAIN r.effects : r.effects[i] = "endpoint_states"
              THEN [e \in DOMAIN parse_range(options.pattern).endpoints |-> EndpointNew]
              ELSE endpoint_states
    /\ UNCHANGED <<now, options, buf, completed_pages, pages_started, received,
                   sock, errors, summary, pmVars, unread, sent>>

NextTest ==
    \/ \E fails \in OsFailures : RunTestStart(fails)
    \/ NextRtp

SpecTest == InitTest /\ [][NextTest]_vars

(***************************************************************************)
(* G.711 (codec/g711.rs): encode_sample and decode_sample of both laws,    *)
(* on 16-bit samples and 8-bit code words.                                 *)
(***************************************************************************)
Samples == (0 - 32768) .. 32767
Laws == {"ulaw", "alaw"}

\* i16 arithmetic keeps the low 16 bits
as_i16(x) == ((x + 32768) % 65536) - 32768

Abs(x) == IF x < 0 THEN 0 - x ELSE x
Min(a, b) == IF a < b THEN a ELSE b
Pow2(n) == 2^n
shr(x, n) == x \div Pow2(n)
shl(x, n) == x * Pow2(n)

\* bitwise exclusive or of two bytes
RECURSIVE BitXor(_, _, _)
BitXor(a, b, bits) ==
    IF bits = 0 THEN 0
    ELSE ((a + b) % 2) + 2 * BitXor(a \div 2, b \div 2, bits - 1)
xor8(a, b) == BitXor(a, b, 8)
not8(a) == 255 - a

ULAW_BIAS == 132
ULAW_CLIP == 32635
ALAW_CLIP == 32767

\* the loop of G711UlawCodec::encode_sample that finds the exponent
RECURSIVE ulaw_exponent(_, _, _)
ulaw_exponent(sample, exponent, exp_mask) ==
    IF exponent > 0 /\ (sample \div exp_mask) % 2 = 0
    THEN ulaw_exponent(sample, exponent - 1, exp_mask \div 2)
    ELSE exponent

\* An encoder that would take the magnitude in 16 bits: the magnitude of
\* -32768 is then -32768 again.
ulaw_encode_narrow(pcm) ==
    LET sign == IF pcm < 0 THEN 128 ELSE 0
        abs_sample == Min(as_i16(Abs(pcm)), ULAW_CLIP)
        sample == as_i16(abs_sample + ULAW_BIAS) % 32768
        exponent == ulaw_exponent(sample, 7, 16384)
        mantissa == shr(sample, exponent + 3) % 16
    IN  not8(sign + shl(exponent, 4) + mantissa)

\* G711UlawCodec::encode_sample
ulaw_encode_sample(pcm) ==
    LET sign == IF pcm < 0 THEN 128 ELSE 0
        abs_sample == as_i16(Min(Abs(pcm), ULAW_CLIP))
        sample == as_i16(abs_sample + ULAW_BIAS)
        exponent == ulaw_exponent(sample, 7, 16384)
        mantissa == shr(sample, exponent + 3) % 16
    IN  not8(sign + shl(exponent, 4) + mantissa)

\* G711UlawCodec::decode_sample
ulaw_decode_sample(code) ==
    LET ulaw == not8(code)
        sign == ulaw \div 128 = 1
        exponent == (ulaw \div 16) % 8
        mantissa == ulaw % 16
        biased == as_i16(shl(shl(mantissa, 1) + 33, exponent + 2))
        sample == as_i16(biased - shl(33, 2))
    IN  IF sign THEN as_i16(0 - sample) ELSE sample

\* the loop of G711AlawCodec::encode_sample that finds the exponent
RECURSIVE alaw_exponent(_, _)
alaw_exponent(temp, exp) ==
    IF temp >= 32 /\ exp < 7 THEN alaw_exponent(temp \div 2, exp + 1) ELSE exp

\* G711AlawCodec::encode_sample
alaw_encode_sample(pcm) ==
    LET sign == IF pcm < 0 THEN 128 ELSE 0
        abs_sample == as_i16(Min(Abs(pcm), ALAW_CLIP))
        sample == shr(abs_sample, 3)
        exponent == IF sample < 32 THEN 0 ELSE alaw_exponent(shr(sample, 1), 1)
        mantissa == IF sample < 32 THEN shr(sample, 1) % 256
                    ELSE shr(sample, exponent) % 16
    IN  xor8(sign + shl(exponent, 4) + mantissa, 85)

\* G711AlawCodec::decode_sample
alaw_decode_sample(code) ==
    LET alaw == xor8(code, 85)
        sign == alaw \div 128 = 1
        exponent == (alaw \div 16) % 8
        mantissa == alaw % 16
        linear == IF exponent = 0 THEN shl(mantissa, 1) + 1
                  ELSE as_i16(shl(shl(mantissa, 1) + 33, exponent - 1))
        sample == as_i16(shl(linear, 3))
    IN  IF sign THEN as_i16(0 - sample) ELSE sample

encode_sample(law, pcm) ==
    IF law = "ulaw" THEN ulaw_encode_sample(pcm) ELSE alaw_encode_sample(pcm)
decode_sample(law, code) ==
    IF law = "ulaw" THEN ulaw_decode_sample(code) ELSE alaw_decode_sample(code)

InitG711 ==
    /\ FnIdle
    /\ pc = "sample"
    /\ options \in [law : Laws, sample : Samples]

G711Encode ==
    /\ pc = "sample"
    /\ buf' = [code |-> encode_sample(options.law, options.sample)]
    /\ pc' = "encoded"
    /\ UNCHANGED <<FnUnchanged, stream>>

G711Decode ==
    /\ pc = "encoded"
    /\ stream' = <<decode_sample(options.law, buf.code)>>
    /\ pc' = "decoded"
    /\ UNCHANGED <<FnUnchanged, buf>>

NextG711 == G711Encode \/ G711Decode

SpecG711 == InitG711 /\ [][NextG711]_vars

(***************************************************************************)
(* f64 arithmetic.  A natural number of any size is a sequence of limbs in *)
(* base 2^13, lowest limb first, without a highest limb of 0.              *)
(***************************************************************************)
F64Bits == 53
LimbBits == F64Bits \div 4
Limb == Pow2(LimbBits)

\* The one element of a set of one element.  {e : x \in {v}} evaluates v
\* once, whatever the number of places of e that use x.
Only(S) == CHOOSE x \in S : TRUE

\* The highest number of a set of positive numbers, 0 for the empty set.
HighestIn(S) == IF S = {} THEN 0 ELSE CHOOSE i \in S : \A j \in S : j <= i

\* a without its highest limbs of 0
BigTrim(a0) ==
    Only({SubSeq(a, 1, HighestIn({i \in DOMAIN a : a[i] # 0})) : a \in {a0}})

RECURSIVE BigFromInt(_)
BigFromInt(n0) ==
    Only({IF n = 0 THEN <<>> ELSE <<n % Limb>> \o BigFromInt(n \div Limb) : n \in {n0}})

RECURSIVE BigToIntFrom(_, _)
BigToIntFrom(a, i) == IF i > Len(a) THEN 0 ELSE a[i] + Limb * BigToIntFrom(a, i + 1)
BigToInt(a0) == Only({BigToIntFrom(a, 1) : a \in {a0}})

LimbAt(a, i) == IF i <= Len(a) THEN a[i] ELSE 0

\* The carry into limb i of a + b: a limb below i overflows and every limb
\* between the two passes the carry on.
CarryInto(a, b, i) ==
    \E j \in 1..(i - 1) :
        /\ LimbAt(a, j) + LimbAt(b, j) >= Limb
        /\ \A k \in (j + 1)..(i - 1) : LimbAt(a, k) + LimbAt(b, k) = Limb - 1

BigAdd(a0, b0) ==
    Only({BigTrim([i \in 1..(Len(a) + Len(b) + 1) |->
                      (LimbAt(a, i) + LimbAt(b, i) + (IF CarryInto(a, b, i) THEN 1 ELSE 0))
                          % Limb]) :
          a \in {a0}, b \in {b0}})

\* The borrow from limb i of a - b: a limb below i is too small and every
\* limb between the two passes the borrow on.
BorrowFrom(a, b, i) ==
    \E j \in 1..(i - 1) :
        /\ LimbAt(a, j) < LimbAt(b, j)
        /\ \A k \in (j + 1)..(i - 1) : LimbAt(a, k) = LimbAt(b, k)

\* a - b for a >= b
BigSub(a0, b0) ==
    Only({BigTrim([i \in 1..Len(a) |->
                      (LimbAt(a, i) - LimbAt(b, i) - (IF BorrowFrom(a, b, i) THEN 1 ELSE 0)
                          + Limb) % Limb]) :
          a \in {a0}, b \in {b0}})

\* -1, 0, 1 as a is below, equal to, above b: the highest limb that differs
BigCmp(a0, b0) ==
    Only({IF Len(a) < Len(b) THEN 0 - 1
          ELSE IF Len(a) > Len(b) THEN 1
          ELSE Only({IF i = 0 THEN 0 ELSE IF a[i] < b[i] THEN 0 - 1 ELSE 1 :
                     i \in {HighestIn({j \in DOMAIN a : a[j] # b[j]})}}) :
          a \in {a0}, b \in {b0}})

\* The number whose limb i is c[i] for limbs c[i] below 2^31 that may be
\* above 2^13: every c[i] has three limbs, and the number is the sum of the
\* low, the middle and the high limbs in their places.
BigFromColumns(c) ==
    BigAdd(BigAdd([i \in DOMAIN c |-> c[i] % Limb],
                  <<0>> \o [i \in DOMAIN c |-> (c[i] \div Limb) % Limb]),
           <<0, 0>> \o [i \in DOMAIN c |-> c[i] \div (Limb * Limb)])

\* a * k for 0 <= k < 2^17
BigMulSmall(a0, k0) ==
    Only({BigFromColumns([i \in 1..Len(a) |-> a[i] * k]) : a \in {a0}, k \in {k0}})

\* the sum of a[j] * b[k + 1 - j] for j from i up: the products of limbs
\* that fall into limb k of a * b
RECURSIVE ColumnFrom(_, _, _, _)
ColumnFrom(a, b, k, i) ==
    IF i > Len(a) \/ i > k THEN 0
    ELSE a[i] * b[k + 1 - i] + ColumnFrom(a, b, k, i + 1)

\* a * b for a and b of less than 32 limbs
BigMul(a0, b0) ==
    Only({BigFromColumns([k \in 1..(Len(a) + Len(b) - 1) |->
                             ColumnFrom(a, b, k, IF k > Len(b) THEN k + 1 - Len(b) ELSE 1)]) :
          a \in {a0}, b \in {b0}})

\* a * 2^k for k below 13
BigShlSmall(a, k) ==
    BigTrim([i \in 1..(Len(a) + 1) |->
                ((LimbAt(a, i) * Pow2(k)) % Limb)
                    + (IF i > 1 THEN a[i - 1] \div Pow2(LimbBits - k) ELSE 0)])

BigShl(a0, k0) ==
    Only({IF a = <<>> \/ k = 0 THEN a
          ELSE Repeat(0, k \div LimbBits) \o BigShlSmall(a, k % LimbBits) :
          a \in {a0}, k \in {k0}})

\* floor(a / 2^k) for k below 13
BigShrSmall(a, k) ==
    BigTrim([i \in 1..Len(a) |->
                (a[i] \div Pow2(k)) + (LimbAt(a, i + 1) % Pow2(k)) * Pow2(LimbBits - k)])

BigShr(a0, k0) ==
    Only({IF a = <<>> \/ k = 0 THEN a
          ELSE IF k \div LimbBits >= Len(a) THEN <<>>
          ELSE BigShrSmall(SubSeq(a, k \div LimbBits + 1, Len(a)), k % LimbBits) :
          a \in {a0}, k \in {k0}})

\* the number of bits of a limb
IntBits(n0) == Only({HighestIn({k \in 1..LimbBits : n >= Pow2(k - 1)}) : n \in {n0}})
BigBits(a0) ==
    Only({IF a = <<>> THEN 0 ELSE LimbBits * (Len(a) - 1) + IntBits(a[Len(a)]) : a \in {a0}})

\* the low k bits of a are not all 0
BigLowBits(a0, k0) == Only({BigCmp(BigShl(BigShr(a, k), k), a) # 0 : a \in {a0}, k \in {k0}})
BigOdd(a0) == Only({a # <<>> /\ a[1] % 2 = 1 : a \in {a0}})

\* bit `bit` of a (the lowest is bit 0), as a number
BigBit(a, bit) ==
    IF (a[bit \div LimbBits + 1] \div Pow2(bit % LimbBits)) % 2 = 1 THEN <<1>> ELSE <<>>

\* One step of a long division of n by d: bit `bit` of n comes in below the
\* remainder s.r, and the bit of the quotient below s.q.
BigDivBit(s0, n, d, bit) ==
    Only({Only({IF BigCmp(r2, d) >= 0
                THEN [q |-> BigAdd(BigShl(s.q, 1), <<1>>), r |-> BigSub(r2, d)]
                ELSE [q |-> BigShl(s.q, 1), r |-> r2] :
                r2 \in {BigAdd(BigShl(s.r, 1), BigBit(n, bit))}}) :
          s \in {s0}})

\* The steps of the long division for the bits hi down to lo of n, the
\* higher half of the bits before the lower half.
RECURSIVE BigDivBits(_, _, _, _, _)
BigDivBits(s0, n, d, hi, lo) ==
    IF hi = lo THEN BigDivBit(s0, n, d, hi)
    ELSE CHOOSE s2 \in {BigDivBits(s1, n, d, (hi + lo + 1) \div 2 - 1, lo) :
                         s1 \in {BigDivBits(s0, n, d, hi, (hi + lo + 1) \div 2)}} : TRUE

\* floor(n / d) and the remainder by long division, from the highest bit
BigDivMod(n0, d0) ==
    Only({IF n = <<>> THEN [q |-> <<>>, r |-> <<>>]
          ELSE BigDivBits([q |-> <<>>, r |-> <<>>], n, d, LimbBits * Len(n) - 1, 0) :
          n \in {n0}, d \in {d0}})

(***************************************************************************)
(* A finite f64 is (-1)^neg * m * 2^e with m below 2^53; the results here  *)
(* stay far from the ends of the exponent range.                           *)
(***************************************************************************)
F64(neg, m, e) == [neg |-> neg, m |-> m, e |-> e]
F64Zero == F64(FALSE, <<>>, 0)

\* f64_round for a mantissa m of drop bits too many
RoundOff(neg, m, e, sticky, drop) ==
    Only({F64(neg, IF half /\ (rest \/ BigOdd(kept)) THEN BigAdd(kept, <<1>>) ELSE kept,
              e + drop) :
          kept \in {BigShr(m, drop)},
          half \in {BigOdd(BigShr(m, drop - 1))},
          rest \in {sticky \/ BigLowBits(m, drop - 1)}})

\* the f64 nearest to (m + a fraction that is not 0 iff sticky) * 2^e, ties
\* to even
f64_round(neg0, m0, e0, sticky0) ==
    Only({IF m = <<>> THEN F64Zero
          ELSE IF BigBits(m) <= F64Bits THEN F64(neg, m, e)
          ELSE RoundOff(neg, m, e, sticky, BigBits(m) - F64Bits) :
          neg \in {neg0}, m \in {m0}, e \in {e0}, sticky \in {sticky0}})

\* u32 or usize as f64 (exact below 2^53)
f64_from_int(n0) ==
    Only({F64(n < 0, BigFromInt(IF n < 0 THEN 0 - n ELSE n), 0) : n \in {n0}})

\* a / b for b # 0, from the quotient of a.m * 2^shift by b.m
DivShifted(a, b, shift) ==
    Only({f64_round(a.neg # b.neg, d.q, a.e - b.e - shift, d.r # <<>>) :
          d \in {BigDivMod(BigShl(a.m, shift), b.m)}})

f64_div(a0, b0) ==
    Only({IF a.m = <<>> THEN F64Zero ELSE DivShifted(a, b, F64Bits + 2 + BigBits(b.m)) :
          a \in {a0}, b \in {b0}})

\* a * b
f64_mul(a0, b0) ==
    Only({f64_round(a.neg # b.neg, BigMul(a.m, b.m), a.e + b.e, FALSE) : a \in {a0}, b \in {b0}})

\* a + b for mantissas am and bm of the same exponent e
AddAligned(a, b, am, bm, e) ==
    IF a.neg = b.neg THEN f64_round(a.neg, BigAdd(am, bm), e, FALSE)
    ELSE IF BigCmp(am, bm) >= 0 THEN f64_round(a.neg, BigSub(am, bm), e, FALSE)
    ELSE f64_round(b.neg, BigSub(bm, am), e, FALSE)

\* a + b
f64_add(a0, b0) ==
    Only({Only({AddAligned(a, b, am, bm, Min(a.e, b.e)) :
                am \in {BigShl(a.m, a.e - Min(a.e, b.e))},
                bm \in {BigShl(b.m, b.e - Min(a.e, b.e))}}) :
          a \in {a0}, b \in {b0}})

f64_neg(a0) == Only({F64(~a.neg, a.m, a.e) : a \in {a0}})
f64_sub(a, b) == f64_add(a, f64_neg(b))

\* f64::floor of a value that is not negative, as an integer
f64_floor(a0) ==
    Only({IF a.e >= 0 THEN BigToInt(BigShl(a.m, a.e)) ELSE BigToInt(BigShr(a.m, 0 - a.e)) :
          a \in {a0}})

\* f64::fract of a value that is not negative
f64_fract(a0) ==
    Only({IF a.e >= 0 THEN F64Zero
          ELSE F64(FALSE, BigSub(a.m, BigShl(BigShr(a.m, 0 - a.e), 0 - a.e)), a.e) :
          a \in {a0}})

\* the integer n of magnitude as i16, saturating
SaturateI16(neg, n) ==
    IF neg THEN (IF n > 32768 THEN 0 - 32768 ELSE 0 - n)
    ELSE (IF n > 32767 THEN 32767 ELSE n)

\* `as i16`: towards zero, saturating
f64_as_i16(a0) ==
    Only({Only({SaturateI16(a.neg, IF BigBits(mag) > 16 THEN 65536 ELSE BigToInt(mag)) :
                mag \in {IF a.e >= 0 THEN BigShl(a.m, a.e) ELSE BigShr(a.m, 0 - a.e)}}) :
          a \in {a0}})

\* `as usize` of a value that is not negative and below 2^31
f64_as_usize(a) == f64_floor(a)

\* what one element of the result was made of: the indices read in
\* `samples` (from 0) and the value
Resampled(reads, value) == [reads |-> reads, value |-> value]

\* transmit.rs:285-293, polycom_transmit.rs:455-463: the element at position pos
ResampleAt(samples, pos0) ==
    Only({Only({IF idx + 1 >= Len(samples)
                THEN Resampled({Min(idx, Len(samples) - 1)},
                               IF Min(idx, Len(samples) - 1) + 1 \in DOMAIN samples
                               THEN samples[Min(idx, Len(samples) - 1) + 1]
                               ELSE "out of bounds")
                ELSE Resampled({idx, idx + 1},
                               f64_as_i16(f64_add(f64_from_int(samples[idx + 1]),
                                                  f64_mul(f64_sub(f64_from_int(samples[idx + 2]),
                                                                  f64_from_int(samples[idx + 1])),
                                                          frac)))) :
                idx \in {f64_floor(pos)}, frac \in {f64_fract(pos)}}) :
          pos \in {pos0}})

\* transmit.rs:277-296, polycom_transmit.rs:447-466: simple_resample
simple_resample(samples, from_rate, to_rate) ==
    Only({[i \in 1..f64_as_usize(f64_div(f64_from_int(Len(samples)), ratio)) |->
              ResampleAt(samples, f64_mul(f64_from_int(i - 1), ratio))] :
          ratio \in {f64_div(f64_from_int(from_rate), f64_from_int(to_rate))}})

\* Sample rates: those of the codecs, of compact discs, and one of a file
\* recorded at 4480 Hz.
ResampleRates == {8000, 16000, 44100, 48000, 4480}

\* the samples of test_simple_resample, and a signal that swings between the
\* ends of the range
TestRamp == [i \in 1..8 |-> (i - 1) * 100]
Swing(n) == [i \in 1..n |-> IF i % 2 = 1 THEN 0 - 32768 ELSE 32767]
Ramp(n) == [i \in 1..n |-> (i * 37) % 1000]

ResampleInputs ==
    [samples : {<<>>, <<5>>, TestRamp, Swing(14)},
     from_rate : ResampleRates, to_rate : ResampleRates]
    \cup {[samples |-> Ramp(480), from_rate |-> 48000, to_rate |-> 44100]}

InitResample ==
    /\ FnIdle
    /\ pc = "samples"
    /\ options \in ResampleInputs

Resample ==
    /\ pc = "samples"
    /\ stream' = simple_resample(options.samples, options.from_rate, options.to_rate)
    /\ pc' = "resampled"
    /\ UNCHANGED <<FnUnchanged, buf>>

NextResample == Resample

SpecResample == InitResample /\ [][NextResample]_vars

(***************************************************************************)
(* The RTP receive loop with two sockets (monitor.rs:319-432,              *)
(* test.rs:370-434).  Socket 1 is the socket of the model's endpoints;     *)
(* socket 2 belongs to another port.  unread is the queue of socket 1:     *)
(* the arrival times of the datagrams of one stream that the loop has not  *)
(* read yet.  tx.last_arrival is the time of the latest arrival.  The run  *)
(* timeout lies beyond the times looked at.                                *)
(***************************************************************************)
MaxArrivals == 3         \* bound: datagrams of the stream
MaxOtherReads == 2       \* bound: datagrams read from socket 2
MaxQTicks == 6           \* bound: receive timeouts followed one by one

QPorts == <<"p1", "p2">>
QSockets == Len(QPorts)
QDatagram == RtpValid("A", 1, PT_PCMU)
QPass == QSockets * RxRecvTimeoutMs

InitQueue ==
    /\ Common /\ PmIdle /\ RxIdle
    /\ stream = <<>> /\ sent = <<>>
    /\ unread = <<>>
    /\ tx = [last_arrival |-> NoInstant, arrivals |-> 0, other_reads |-> 0, ticks |-> 0]
    /\ pc = "top"
    /\ options \in [timeout : {0}, mode : {"monitor"}]

QUnchanged == <<options, summary, errors, pmVars, stream, sent>>

\* A datagram of the stream arrives at socket 1.
QArrive ==
    /\ pc \in {"top", "recv"}
    /\ tx.arrivals < MaxArrivals
    /\ unread' = Append(unread, now)
    /\ tx' = [tx EXCEPT !.last_arrival = now, !.arrivals = @ + 1]
    /\ UNCHANGED <<now, pc, buf, sock, endpoint_states, completed_pages, pages_started,
                   received, QUnchanged>>

\* monitor.rs:330-339, test.rs:377-388: the idle check of every endpoint, then
\* on to the sockets
QSupervise ==
    /\ pc = "top"
    /\ LET due == {e \in EndpointIds : IdleDue(endpoint_states[e], now)} IN
       /\ completed_pages' = completed_pages \o SummariesIn(1, due)
       /\ endpoint_states' = [e \in EndpointIds |->
              IF e \in due THEN handle_page_end(endpoint_states[e]) ELSE endpoint_states[e]]
    /\ pc' = "recv"
    /\ sock' = 1
    /\ UNCHANGED <<now, buf, pages_started, received, unread, tx, QUnchanged>>

\* monitor.rs:399-430, test.rs:405-431: the first datagram of the queue of
\* socket 1 is read and handled
QRecv ==
    /\ pc = "recv" /\ sock = 1
    /\ unread # <<>>
    /\ LET p == RtpParse(QDatagram)
           e == endpoint_key(p)
           st == endpoint_states[e]
       IN  /\ buf' = QDatagram
           /\ unread' = Tail(unread)
           /\ received' = received + 1
           /\ pages_started' = IF IsNewPage(st, p) THEN pages_started + 1 ELSE pages_started
           /\ endpoint_states' = [endpoint_states EXCEPT ![e] = HandleOk(st, p, now)]
    /\ UNCHANGED <<now, pc, sock, completed_pages, tx, QUnchanged>>

\* monitor.rs:410, test.rs:414: nothing arrives at the socket within the
\* receive timeout; on to the next socket, or back to the top
QRecvTimeout ==
    /\ pc = "recv"
    /\ sock = 1 => unread = <<>>
    /\ tx.ticks < MaxQTicks
    /\ tx' = [tx EXCEPT !.ticks = @ + 1]
    /\ now' = now + RxRecvTimeoutMs
    /\ buf' = NoDatagram
    /\ IF sock < QSockets THEN sock' = sock + 1 /\ pc' = pc
                          ELSE sock' = sock /\ pc' = "top"
    /\ UNCHANGED <<endpoint_states, completed_pages, pages_started, received, unread,
                   QUnchanged>>

\* monitor.rs:414-416, test.rs:417-419: a datagram that does not parse is
\* read from socket 2
QRecvOther(d) ==
    /\ pc = "recv" /\ sock = 2
    /\ ~RtpParse(d).ok
    /\ tx.other_reads < MaxOtherReads
    /\ now' = now + RxArrivalDelay
    /\ buf' = d
    /\ tx' = [tx EXCEPT !.other_reads = @ + 1]
    /\ UNCHANGED <<pc, sock, endpoint_states, completed_pages, pages_started, received,
                   unread, QUnchanged>>

\* While nothing arrives the loop repeats the same pass (an idle check with
\* nothing due, a receive timeout at every socket).  At the top with a page
\* active and an empty queue, the silent passes up to the last top before
\* the page is due are taken at once.
QSilence ==
    /\ pc = "top"
    /\ unread = <<>>
    /\ \E e \in EndpointIds :
          LET st == endpoint_states[e]
              left == st.last_packet + IdleTimeoutMs - 1 - now
          IN  /\ st.page_active /\ st.last_packet # NoInstant
              /\ left >= QPass
              /\ now' = now + (left \div QPass) * QPass
    /\ UNCHANGED <<pc, buf, sock, endpoint_states, completed_pages, pages_started, received,
                   unread, tx, QUnchanged>>

NextQueue ==
    \/ QArrive
    \/ QSupervise
    \/ QRecv
    \/ QRecvTimeout
    \/ \E d \in MalformedRtp : QRecvOther(d)
    \/ QSilence

SpecQueue == InitQueue /\ [][NextQueue]_vars

(***************************************************************************)
(* The audio of a page (monitor.rs handle_packet / handle_page_end,        *)
(* polycom_monitor.rs handle_transmit / finalize_session) with the decoder *)
(* of its codec.  tx holds the decoder of the page, the payload bytes the  *)
(* page has accepted and the samples handed to the recorder.  The external *)
(* transcoder decodes whatever it is given.                                *)
(***************************************************************************)
MaxPayloads == 11        \* bound: audio payloads of the page

decode_threshold == 1600
PayloadSizes == {G722_FRAME_SIZE \div 2, G722_FRAME_SIZE}
DecCodecs == {"G711Ulaw", "G722"}

\* samples per encoded byte: one for G.711, two for G.722
samples_of(codec, bytes) == (bytes * sample_rate(codec)) \div 8000

\* Option<Box<dyn AudioDecoder>>::None
NoDecoder == [codec |-> "None", buffer |-> 0]

\* create_decoder
create_decoder(codec) == [codec |-> codec, buffer |-> 0]

DecodeResult(decoder, samples) == [decoder |-> decoder, samples |-> samples]

\* A G.722 decoder that would decode every input at once.
decode_unbuffered(decoder, input) == DecodeResult(decoder, samples_of(decoder.codec, input))

\* AudioDecoder::decode: G711UlawCodec decodes byte by byte, FfmpegG722Decoder
\* collects decode_threshold bytes first
decode(decoder, input) ==
    IF decoder.codec = "G722"
    THEN LET buffer == decoder.buffer + input IN
         IF buffer < decode_threshold
         THEN DecodeResult([decoder EXCEPT !.buffer = buffer], 0)
         ELSE DecodeResult([decoder EXCEPT !.buffer = 0], samples_of("G722", buffer))
    ELSE DecodeResult(decoder, samples_of(decoder.codec, input))

InitDecode ==
    /\ Common /\ PmIdle /\ RxIdle
    /\ unread = 0 /\ stream = <<>> /\ sent = <<>>
    /\ pc = "page"
    /\ options \in [codec : DecCodecs]
    /\ tx = [decoder |-> NoDecoder, payloads |-> 0, accepted |-> 0, recorded |-> 0]

DecUnchanged == <<now, options, buf, pages_started, received, pmVars, rxVars, unread, stream,
                  sent>>

\* monitor.rs:483-515, polycom_monitor.rs:279-312: an audio payload of the
\* page: the decoder is created with the first, the payload is decoded and
\* the samples go to the recorder
DecPayload(len) ==
    /\ pc = "page"
    /\ tx.payloads < MaxPayloads
    /\ LET decoder == IF tx.decoder = NoDecoder THEN create_decoder(options.codec) ELSE tx.decoder
           r == decode(decoder, len)
       IN  tx' = [decoder |-> r.decoder, payloads |-> tx.payloads + 1,
                  accepted |-> tx.accepted + len, recorded |-> tx.recorded + r.samples]
    /\ UNCHANGED <<pc, completed_pages, DecUnchanged>>

\* monitor.rs:520-584 with reset_page, polycom_monitor.rs:336-394: the page
\* ends; the recording is saved with the samples it has, the page end is
\* reported, the decoder is dropped
DecPageEnd ==
    /\ pc = "page"
    /\ tx.decoder # NoDecoder
    /\ completed_pages' = Append(completed_pages,
            [codec |-> options.codec, accepted |-> tx.accepted, recorded |-> tx.recorded,
             dropped |-> tx.decoder.buffer])
    /\ tx' = [tx EXCEPT !.decoder = NoDecoder]
    /\ pc' = "ended"
    /\ UNCHANGED DecUnchanged

NextDecode ==
    \/ \E len \in PayloadSizes : DecPayload(len)
    \/ DecPageEnd

SpecDecode == InitDecode /\ [][NextDecode]_vars

(***************************************************************************)
(* run_polycom_monitor with several endpoints on one port.  The endpoints  *)
(* of a port share one socket, which is joined to all their groups; a      *)
(* datagram read from it carries its source, never the group it was sent   *)
(* to.  `sessions` is the HashMap<u8, RecordingState> of the code; tx      *)
(* keeps, next to it, the same handlers run over one table per monitored   *)
(* group, which is what the sender of the pages sees.                      *)
(***************************************************************************)
MaxKeyed == 5          \* datagrams read from the socket, per run
KEndpoints == {<<224, 0, 1, 116>>, <<224, 0, 1, 117>>}   \* same port, one socket
KChannels == {1}

\* polycom_monitor.rs:117, 232, 269, 318: the key of the session of a packet
session_key(dest, channel) == channel

\* handle_alert on a table m under key k
alert_in(m, k, p, t) ==
    IF k \in DOMAIN m THEN [m EXCEPT ![k] = update(@, p, t)]
    ELSE MapInsert(m, k, from_alert(t))

\* handle_transmit on a table m under key k
transmit_in(m, k, p, t) ==
    IF k \in DOMAIN m THEN [m EXCEPT ![k] = TransmitEffect(@, p, t)] ELSE m

\* handle_end on a table m under key k: the table and the pages it completes
end_in(m, k, p, t) ==
    IF k \in DOMAIN m
    THEN LET s == update(m[k], p, t) IN
         IF is_complete(s) THEN [m |-> MapRemove(m, {k}), done |-> 1]
         ELSE [m |-> [m EXCEPT ![k] = s], done |-> 0]
    ELSE [m |-> m, done |-> 0]

\* cleanup_stale_sessions on a table m: the keys it removes
stale_in(m, t) == {k \in DOMAIN m : t - m[k].last_packet_at > session_timeout_ms}

InitKeys ==
    /\ Common /\ PmIdle /\ RxIdle
    /\ pc = "loop"
    /\ options = [timeout |-> DurationMax, channel_filter |-> {}]
    /\ unread = <<>> /\ stream = <<>> /\ sent = <<>>
    /\ tx = [sessions |-> EmptyMap, pages_started |-> 0, completed |-> 0,
             dest |-> <<0, 0, 0, 0>>]

KUnchanged == <<pc, options, seen, rxVars, unread, stream, sent>>

\* A datagram d sent to the group dest is read from the shared socket.
KReceives(d, dest, ty) ==
    /\ PmRunning
    /\ dest \in KEndpoints
    /\ PolycomParse(d).ok
    /\ PolycomParse(d).packet_type = ty
    /\ PassesFilter(PolycomParse(d).channel)
    /\ received < MaxKeyed
    /\ now' = Advance(PmArrivalDelay)
    /\ buf' = d
    /\ received' = received + 1
    /\ UNCHANGED KUnchanged

\* polycom_monitor.rs:153-155, an Alert packet
KAlert(d, dest) ==
    LET p == PolycomParse(d)
        k == session_key(dest, p.channel)
        g == <<dest, p.channel>> IN
    /\ KReceives(d, dest, "Alert")
    /\ sessions' = alert_in(sessions, k, p, now')
    /\ pages_started' = IF k \in DOMAIN sessions THEN pages_started ELSE pages_started + 1
    /\ tx' = [tx EXCEPT !.sessions = alert_in(@, g, p, now'),
                        !.pages_started = IF g \in DOMAIN tx.sessions THEN @ ELSE @ + 1,
                        !.dest = dest]
    /\ UNCHANGED completed_pages

\* polycom_monitor.rs:156-158, a Transmit packet
KTransmit(d, dest) ==
    LET p == PolycomParse(d)
        k == session_key(dest, p.channel)
        g == <<dest, p.channel>> IN
    /\ KReceives(d, dest, "Transmit")
    /\ sessions' = transmit_in(sessions, k, p, now')
    /\ tx' = [tx EXCEPT !.sessions = transmit_in(@, g, p, now'), !.dest = dest]
    /\ UNCHANGED <<completed_pages, pages_started>>

\* polycom_monitor.rs:159-163, an End packet
KEnd(d, dest) ==
    LET p == PolycomParse(d)
        k == session_key(dest, p.channel)
        g == <<dest, p.channel>>
        e == end_in(sessions, k, p, now')
        ge == end_in(tx.sessions, g, p, now') IN
    /\ KReceives(d, dest, "End")
    /\ sessions' = e.m
    /\ completed_pages' = IF e.done = 1
                          THEN Append(completed_pages, finalize_session(k, update(sessions[k], p, now')))
                          ELSE completed_pages
    /\ tx' = [tx EXCEPT !.sessions = ge.m, !.completed = @ + ge.done, !.dest = dest]
    /\ UNCHANGED pages_started

\* polycom_monitor.rs:175-178, the receive timed out: cleanup_stale_sessions
KQuiet ==
    /\ PmRunning
    /\ now < MaxTime
    /\ now' = Advance(PmRecvTimeoutMs)
    /\ LET stale == stale_in(sessions, now')
           gstale == stale_in(tx.sessions, now')
       IN  /\ sessions' = MapRemove(sessions, stale)
           /\ \E o \in Orders(stale) :
                completed_pages' = completed_pages \o SummariesOf(o, sessions)
           /\ tx' = [tx EXCEPT !.sessions = MapRemove(@, gstale),
                               !.completed = @ + Cardinality(gstale)]
    /\ buf' = NoDatagram
    /\ UNCHANGED <<pages_started, received, KUnchanged>>

NextKeys ==
    \/ \E c \in KChannels, dest \in KEndpoints : KAlert(AlertDatagram(c), dest)
    \/ \E c \in KChannels, dest \in KEndpoints : KTransmit(TransmitDatagram(c), dest)
    \/ \E c \in KChannels, dest \in KEndpoints : KEnd(EndDatagram(c), dest)
    \/ KQuiet

SpecKeys == InitKeys /\ [][NextKeys]_vars

(***************************************************************************)
(* The decode step of the receive handlers (monitor.rs:497-516,            *)
(* test.rs:559-576, polycom_monitor.rs:296-308): the packet is counted,    *)
(* then its payload goes to the decoder, and what the decoder returns goes *)
(* to the recorder.  L16Codec rejects a payload of an odd number of bytes; *)
(* FfmpegG722Decoder fails when its ffmpeg process does.                   *)
(***************************************************************************)
SkipCodecs == {"L16", "G722"}
SkipSizes == {G722_FRAME_SIZE - 1, G722_FRAME_SIZE}

TryResult(ok, decoder, samples) == [ok |-> ok, decoder |-> decoder, samples |-> samples]

\* AudioDecoder::decode with its errors; ffmpeg_ok: the ffmpeg process, if
\* one is run, exits with success
try_decode(decoder, input, ffmpeg_ok) ==
    IF decoder.codec = "L16"
    THEN (IF input % 2 # 0 THEN TryResult(FALSE, decoder, 0)
          ELSE TryResult(TRUE, decoder, input \div 2))
    ELSE LET r == decode(decoder, input) IN
         IF decoder.codec = "G722" /\ decoder.buffer + input >= decode_threshold /\ ~ffmpeg_ok
         THEN TryResult(FALSE, r.decoder, 0)
         ELSE TryResult(TRUE, r.decoder, r.samples)

\* The slot of the page: EndpointState with the samples its recorder holds
SkipSlot(page_active, stats, decoder, recorded) ==
    [page_active |-> page_active, stats |-> stats, decoder |-> decoder, recorded |-> recorded]

\* A handler that would end the page on a payload that does not decode.
record_or_end(slot, p, len, ffmpeg_ok) ==
    LET r == try_decode(slot.decoder, len, ffmpeg_ok) IN
    IF r.ok THEN SkipSlot(slot.page_active, stats_update(slot.stats, p), r.decoder,
                          slot.recorded + r.samples)
    ELSE SkipSlot(FALSE, PageStatsDefault, NoDecoder, slot.recorded)

\* monitor.rs:497-516, test.rs:559-576: statistics, then decode and record
record_packet(slot, p, len, ffmpeg_ok) ==
    LET r == try_decode(slot.decoder, len, ffmpeg_ok) IN
    SkipSlot(slot.page_active, stats_update(slot.stats, p), r.decoder,
             IF r.ok THEN slot.recorded + r.samples ELSE slot.recorded)

InitSkip ==
    /\ Common /\ PmIdle /\ RxIdle
    /\ unread = 0 /\ stream = <<>> /\ sent = <<>>
    /\ pc = "page"
    /\ options \in [codec : SkipCodecs]
    /\ tx = [slot |-> SkipSlot(FALSE, PageStatsDefault, NoDecoder, 0),
             len |-> 0, decoded |-> TRUE, failures |-> 0]

\* handle_packet for the packet of sequence number tx.slot.stats.packets_received + 1
\* of the page, with a payload of len bytes
SkipPacket(len, ffmpeg_ok) ==
    LET p == [sequence_number |-> tx.slot.stats.packets_received + 1]
        started == IF tx.slot.page_active THEN tx.slot
                   ELSE SkipSlot(TRUE, PageStatsDefault, create_decoder(options.codec), 0)
    IN  /\ pc = "page"
        /\ tx.slot.stats.packets_received < MaxPayloads
        /\ received' = received + 1
        /\ pages_started' = IF tx.slot.page_active THEN pages_started ELSE pages_started + 1
        /\ tx' = [slot |-> record_packet(started, p, len, ffmpeg_ok),
                  len |-> len,
                  decoded |-> try_decode(started.decoder, len, ffmpeg_ok).ok,
                  failures |-> IF try_decode(started.decoder, len, ffmpeg_ok).ok
                               THEN tx.failures ELSE tx.failures + 1]
        /\ UNCHANGED <<pc, now, options, buf, completed_pages, pmVars, rxVars, unread, stream, sent>>

\* monitor.rs:330-336 with handle_page_end: the page ends on the idle timeout
SkipPageEnd ==
    /\ pc = "page"
    /\ tx.slot.page_active
    /\ completed_pages' = Append(completed_pages,
            [packets_received |-> tx.slot.stats.packets_received, recorded |-> tx.slot.recorded])
    /\ tx' = [tx EXCEPT !.slot = SkipSlot(FALSE, PageStatsDefault, NoDecoder, 0)]
    /\ pc' = "ended"
    /\ UNCHANGED <<now, options, buf, pages_started, received, pmVars, rxVars, unread, stream, sent>>

NextSkip ==
    \/ \E len \in SkipSizes, ffmpeg_ok \in BOOLEAN : SkipPacket(len, ffmpeg_ok)
    \/ SkipPageEnd

SpecSkip == InitSkip /\ [][NextSkip]_vars

(***************************************************************************)
(* run_transmit with an encoder that can fail.  G711UlawCodec::encode      *)
(* always succeeds; FfmpegG722Encoder::encode runs ffmpeg for every frame  *)
(* and returns Err when the process cannot be run or fails.  stream is the *)
(* log of the chunks whose encoding failed.                                *)
(***************************************************************************)
\* transmit.rs:104 `encoder.encode(&frame)?`: the encoder returns Err for
\* the chunk, run_transmit returns the error
RtpTxEncodeError ==
    /\ pc = "rtp_send"
    /\ options.codec = "G722"
    /\ Len(PageLog(tx.iteration)) < chunks(options.samples, encoder_frame_size(options.codec))
    /\ stream' = Append(stream, [iteration |-> tx.iteration, chunk |-> Len(PageLog(tx.iteration))])
    /\ pc' = "exit_err"
    /\ UNCHANGED <<now, tx, sent, options, buf, completed_pages, pages_started, received,
                   pmVars, rxVars, unread>>

NextRtpTxErr == NextRtpTx \/ RtpTxEncodeError

SpecRtpTxErr == InitRtpTx /\ [][NextRtpTxErr]_vars

(***************************************************************************)
(* PolycomPacketBuilder::build_transmit as a fallible call (polycom.rs).   *)
(* The builder keeps the caller ID it was made with; header.encode()? is    *)
(* the first step of the call and refuses a caller ID of more than 255      *)
(* bytes.  tx holds the builder, the number of calls made and the Result    *)
(* of the last call.                                                        *)
(***************************************************************************)
MaxBuilds == 3           \* bound: calls made on one builder

BuildCallerIds == {Repeat(65, n) : n \in {MIN_CALLER_ID_LEN - 1, CallerIdMax, CallerIdMax + 1}}
BuildFrames == {1, 2}

\* PolycomHeader::new(PacketType::Transmit, channel, host_serial, caller_id.clone())
transmit_header(b) ==
    [packet_type |-> "Transmit", channel |-> b.channel,
     host_serial |-> b.host_serial, caller_id |-> b.caller_id]

\* A build_transmit that would store the frame and advance the counter
\* before it encodes the header.
build_then_encode(b, audio_frame) ==
    IF header_encode(transmit_header(b)).ok
    THEN [ok |-> TRUE, builder |-> build_transmit_state(b, audio_frame),
          header |-> header_encode(transmit_header(b)).bytes,
          packet |-> build_transmit(b, audio_frame)]
    ELSE [ok |-> FALSE, builder |-> build_transmit_state(b, audio_frame),
          error |-> header_encode(transmit_header(b)).error]

\* build_transmit with its Result: the builder after the call, and the bytes
\* of the header followed by the audio part when the call succeeds
try_build_transmit(b, audio_frame) ==
    IF header_encode(transmit_header(b)).ok
    THEN [ok |-> TRUE, builder |-> build_transmit_state(b, audio_frame),
          header |-> header_encode(transmit_header(b)).bytes,
          packet |-> build_transmit(b, audio_frame)]
    ELSE [ok |-> FALSE, builder |-> b,
          error |-> header_encode(transmit_header(b)).error]

NoResult == [ok |-> TRUE, calls |-> 0]

InitBuild ==
    /\ Common /\ PmIdle /\ RxIdle
    /\ unread = 0 /\ stream = <<>> /\ sent = <<>>
    /\ pc = "build"
    /\ options \in [codec : {"G711U", "G722"}, caller_id : BuildCallerIds,
                    no_redundant : BOOLEAN, little_endian : BOOLEAN]
    /\ \E seed \in Seeds :
         tx = [calls |-> 0, result |-> NoResult,
               builder |-> [channel |-> 1, host_serial |-> <<171, 205, 239, 1>>,
                            caller_id |-> options.caller_id]
                           @@ BuilderNew(options.codec, seed, options.no_redundant,
                                         options.little_endian)]

\* builder.build_transmit(audio_frame)
BuildTransmit(audio_frame) ==
    /\ pc = "build"
    /\ tx.calls < MaxBuilds
    /\ tx' = [calls |-> tx.calls + 1,
              result |-> [f \in DOMAIN try_build_transmit(tx.builder, audio_frame) \ {"builder"}
                              |-> try_build_transmit(tx.builder, audio_frame)[f]],
              builder |-> try_build_transmit(tx.builder, audio_frame).builder]
    /\ UNCHANGED <<pc, now, options, buf, completed_pages, pages_started, received,
                   pmVars, rxVars, unread, stream, sent>>

\* builder.reset()
BuildReset ==
    /\ pc = "build"
    /\ tx.calls > 0
    /\ tx.calls < MaxBuilds
    /\ \E seed \in Seeds :
         tx' = [calls |-> tx.calls + 1, result |-> NoResult,
                builder |-> reset(tx.builder, seed)]
    /\ UNCHANGED <<pc, now, options, buf, completed_pages, pages_started, received,
                   pmVars, rxVars, unread, stream, sent>>

NextBuild ==
    \/ \E audio_frame \in BuildFrames : BuildTransmit(audio_frame)
    \/ BuildReset

SpecBuild == InitBuild /\ [][NextBuild]_vars

(***************************************************************************)
(* Claims about the paging monitor.                                        *)
(***************************************************************************)
\* A step in which the loop read datagram d and handed it to a handler.
Handled(d) == pc = "loop" /\ received' = received + 1 /\ buf' = d

LastPage == completed_pages[Len(completed_pages)]

\* C1: an End packet for a channel with an open session removes the session
\* exactly when it is the third End of that session; the first and the second
\* End leave the session in the table in state Ending; the third appends one
\* page summary whose audio packet count is the number of Transmit packets the
\* session handled.
C1_ThirdEndFinalises ==
    [][\A c \in PmChannels :
        (Handled(EndDatagram(c)) /\ c \in DOMAIN sessions) =>
            IF seen[c].end = EndsToComplete - 1
            THEN /\ c \notin DOMAIN sessions'
                 /\ Len(completed_pages') = Len(completed_pages) + 1
                 /\ completed_pages'[Len(completed_pages')].channel = c
                 /\ completed_pages'[Len(completed_pages')].audio_packets = seen[c].transmit
            ELSE /\ seen[c].end < EndsToComplete - 1
                 /\ c \in DOMAIN sessions'
                 /\ sessions'[c].state = "Ending"
                 /\ completed_pages' = completed_pages]_vars

\* C1 witness: a session with a Transmit packet was finalised by its third End.
C1_Witness ==
    /\ buf = EndDatagram(1)
    /\ 1 \notin DOMAIN sessions
    /\ seen[1] = [alert |-> 1, transmit |-> 1, end |-> 3]
    /\ Len(completed_pages) = 1
    /\ LastPage.audio_packets = 1

\* C2: a Transmit packet for a channel without a session opens a session in
\* state Transmitting that counts the packet as its first audio packet.
C2_TransmitOpensSession ==
    [][\A c \in PmChannels :
        (Handled(TransmitDatagram(c)) /\ c \notin DOMAIN sessions) =>
            /\ c \in DOMAIN sessions'
            /\ sessions'[c].state = "Transmitting"
            /\ sessions'[c].audio_packet_count = 1]_vars

\* C4: an Alert that arrives more than the session timeout after the last
\* packet of its channel's session is not absorbed by that session: the old
\* session is finalised as its own page and the Alert opens a new session.
C4_LateAlertStartsNewSession ==
    [][\A c \in PmChannels :
        (/\ Handled(AlertDatagram(c))
         /\ c \in DOMAIN sessions
         /\ now' - sessions[c].last_packet_at > session_timeout_ms) =>
            /\ sessions'[c].alert_count = 1
            /\ Len(completed_pages') = Len(completed_pages) + 1]_vars

\* A session that has been idle for longer than the session timeout.
Stale(c) == c \in DOMAIN sessions /\ now - sessions[c].last_packet_at > session_timeout_ms

\* C5: a session that has gone stale is eventually removed from the table,
\* whatever else arrives on the socket.
C5_StaleSessionFinalised ==
    \A c \in PmChannels : Stale(c) ~> (c \notin DOMAIN sessions)

(***************************************************************************)
(* Claims about the RTP receive loops.                                     *)
(***************************************************************************)
ValidRtp == {d \in RxDatagrams : RtpParse(d).ok}

\* A step in which the drain loop read packet d and handed it to the handler
\* of endpoint e, whose active page has the packet's SSRC.
RxDelivered(d, e) ==
    /\ pc = "recv"
    /\ buf' = d
    /\ received' = received + 1
    /\ Candidates(RtpParse(d)) # {}
    /\ e = endpoint_key(RtpParse(d))
    /\ endpoint_states[e].page_active
    /\ endpoint_states[e].ssrc = d.ssrc
    /\ endpoint_states[e].stats.packets_received >= 1

ActiveSlots == {e \in EndpointIds : endpoint_states[e].page_active}

\* C3: a packet that reaches the slot of its SSRC more than the idle timeout
\* after the slot's previous packet does not continue the page: the page of
\* the earlier packets is ended and the packet is the first of a new page
\* (packets_received 1, packets_lost 0).
C3_GapStartsNewPage ==
    [][\A d \in ValidRtp : \A e \in EndpointIds :
        (RxDelivered(d, e) /\ now' - endpoint_states[e].last_packet > IdleTimeoutMs) =>
            /\ Len(completed_pages') = Len(completed_pages) + 1
            /\ endpoint_states'[e].stats.packets_received = 1
            /\ endpoint_states'[e].stats.packets_lost = 0]_vars

\* C6: there is never more than one page end per page started, and once the
\* run has exited every page started has its page end.
C6_OnePageEndPerPage ==
    /\ Len(completed_pages) <= pages_started
    /\ pc \in {"done", "exit_ok", "exit_err"} => Len(completed_pages) = pages_started

C8_SupervisorRunsAgain == (pc = "recv") ~> (pc # "recv")

\* A step in which a loop read datagram d and went on reading.
Read(d) == pc \in {"loop", "recv"} /\ pc' = pc /\ buf' = d

\* C9: reading a malformed datagram changes no session, no slot, no page and
\* no counter of either.
C9_MalformedChangesNothing ==
    [][\A d \in MalformedPm \cup MalformedRtp :
        Read(d) => UNCHANGED <<sessions, seen, endpoint_states, completed_pages,
                               pages_started, errors>>]_vars

\* C9 witness: a malformed datagram was read while a page with two packets is
\* active.
C9_Witness ==
    /\ pc = "recv"
    /\ buf \in MalformedRtp
    /\ endpoint_states[1].page_active
    /\ endpoint_states[1].stats.packets_received = 2

\* C10: no datagram read by the drain loop ends the loop.
C10_NoDatagramEndsLoop ==
    [][(pc = "recv" /\ buf' \in RxDatagrams) => pc' = "recv"]_vars

\* A step in which the drain loop read well-formed packet d.
RxRead(d) == pc = "recv" /\ buf' = d /\ received' = received + 1

\* The endpoints of the port being read whose active page has SSRC s.
Holders(s) ==
    {e \in EndpointIds : /\ Endpoints[e].port = Sockets[sock]
                         /\ endpoint_states[e].page_active
                         /\ endpoint_states[e].ssrc = s}

\* C11: a packet whose SSRC is that of an active slot of its port is counted
\* by that slot and leaves every other slot of the port as it is, idle or not.
C11_MatchingSlotHandles ==
    [][\A d \in ValidRtp : \A e \in EndpointIds :
        (RxRead(d) /\ Holders(d.ssrc) = {e}) =>
            /\ endpoint_states'[e].stats.packets_received =
                   endpoint_states[e].stats.packets_received + 1
            /\ \A x \in EndpointIds \ {e} : endpoint_states'[x] = endpoint_states[x]]_vars

\* C12: a packet whose SSRC no slot of its port holds, read while every slot
\* of the port is active, changes no slot and starts no page; and the SSRC of
\* a slot changes to another SSRC only by a new page starting in a slot that
\* was not active.
C12_OtherSsrcDiscarded ==
    /\ [][\A d \in ValidRtp :
            (/\ RxRead(d)
             /\ Holders(d.ssrc) = {}
             /\ \A e \in EndpointIds : endpoint_states[e].page_active) =>
                UNCHANGED <<endpoint_states, completed_pages, pages_started, errors>>]_vars
    /\ [][\A e \in EndpointIds :
            (/\ endpoint_states'[e].ssrc # endpoint_states[e].ssrc
             /\ endpoint_states'[e].ssrc # "None") =>
                /\ ~endpoint_states[e].page_active
                /\ endpoint_states[e].ssrc = "None"
                /\ endpoint_states'[e].page_active
                /\ endpoint_states'[e].stats.packets_received <= 1
                /\ pages_started' = pages_started + 1]_vars

\* C12 witness: a packet of SSRC C was read while the two slots of the port
\* are active with the pages of SSRC A and SSRC B.
C12_Witness ==
    /\ pc = "recv"
    /\ buf = RtpValid("C", 1, UnmappedPt)
    /\ endpoint_states[1].page_active /\ endpoint_states[1].ssrc = "A"
    /\ endpoint_states[2].page_active /\ endpoint_states[2].ssrc = "B"

(***************************************************************************)
(* Claims about the ports of the paging monitor.                           *)
(***************************************************************************)
\* C15: the paging monitor receives the datagrams of every port of the
\* expanded endpoint set: its receive never runs into the 500 ms timeout
\* while a datagram waits at one of its sockets, so that a page sent to any of
\* the ports is received and reported.
C15_EveryPortReceived ==
    [][cleanup_stale_sessions => unread = 0]_vars

(***************************************************************************)
(* Claims about the page statistics.                                       *)
(***************************************************************************)
PageStatsOf == endpoint_states[1].stats

\* The gap of the packet a step hands to the page to the packet before it.
SeqGap == (stream'[Len(stream')] - stream[Len(stream)]) % 65536

\* C13: for every pair of consecutive sequence numbers of a page with gap g,
\* packets_lost grows by exactly g - 1 when 1 < g < 1000 and does not change
\* when g >= 1000 or g <= 1; packets_lost never decreases within the page.
C13_LossAccounting ==
    [][(pc = "stats" /\ Len(stream) >= 1 /\ Len(stream') = Len(stream) + 1) =>
          /\ (SeqGap > 1 /\ SeqGap < 1000) =>
                 PageStatsOf'.packets_lost = PageStatsOf.packets_lost + SeqGap - 1
          /\ (SeqGap >= 1000 \/ SeqGap <= 1) =>
                 PageStatsOf'.packets_lost = PageStatsOf.packets_lost
          /\ PageStatsOf'.packets_lost >= PageStatsOf.packets_lost]_vars

\* C13 witness: a gap of 999 was charged 998 losses and the gap of 64537 that
\* followed (a reset) was charged none.
C13_Witness ==
    /\ pc = "stats"
    /\ stream = <<1, 1000, 1>>
    /\ PageStatsOf.packets_lost = 998

\* The stream so far increases by one from packet to packet, modulo 2^16.
Monotonic == \A k \in 2..Len(stream) : stream[k] = (stream[k - 1] + 1) % 65536

\* C14: after every packet of a stream whose sequence number increases by one
\* modulo 2^16 the page reports as many packets as the stream has, no loss and
\* a loss percentage of zero.
C14_MonotonicStreamNoLoss ==
    (pc = "stats" /\ Monotonic) =>
        /\ PageStatsOf.packets_received = Len(stream)
        /\ PageStatsOf.packets_lost = 0
        /\ loss_percent(PageStatsOf) = 0

\* C14 witness: three packets across the wrap from 65535 to 0.
C14_Witness ==
    /\ pc = "stats"
    /\ stream = <<65535, 0, 1>>
    /\ PageStatsOf.packets_received = 3
    /\ PageStatsOf.packets_lost = 0

(***************************************************************************)
(* Claims about the paging transmitter and its packet builder.             *)
(***************************************************************************)
\* The Transmit packets sent in page `it`, in the order they were sent.
RECURSIVE TransmitsIn(_, _)
TransmitsIn(log, it) ==
    IF log = <<>> THEN <<>>
    ELSE IF log[1].iteration = it /\ log[1].pkt.op = OP_TRANSMIT
         THEN <<log[1]>> \o TransmitsIn(Tail(log), it)
         ELSE TransmitsIn(Tail(log), it)

Transmits(it) == TransmitsIn(sent, it)

from_le_bytes(b) == U32(b[4] * 256 + b[3], b[2] * 256 + b[1])
WrittenCounter(d) ==
    IF options.little_endian THEN from_le_bytes(d.counter) ELSE from_be_bytes(d.counter)

\* C17: the sample counter written in the k-th Transmit packet built since
\* construction or the last reset() is seed + (k - 1) * frame_samples modulo
\* 2^32, frame_samples being the PCM samples of a 20 ms frame of the codec (160
\* for G.711, 320 for G.722); the progression restarts from the new seed after
\* reset().
C17_CounterAdvancesByFrameSamples ==
    pc \in {"tx_audio", "tx_end"} =>
        \A k \in 1..Len(Transmits(tx.iteration)) :
            WrittenCounter(Transmits(tx.iteration)[k].pkt)
                = wrapping_add(tx.seed, (k - 1) * frame_samples(options.codec))

\* Page `it` is over: a later page has begun or the transmitter is past the
\* End packets of its last page.
PageOver(it) ==
    \/ it < tx.iteration
    \/ pc \in {"tx_prepare", "tx_done"}
    \/ pc = "tx_end" /\ tx.i = options.end_count

\* C18: with the skip flags off, every page is sent as alert_count Alert
\* packets, then one Transmit packet per audio frame in frame order, then
\* end_count End packets (so no Alert follows a Transmit and no Transmit follows
\* an End of the page), and the builder is reset before the next page starts.
C18_AlertAudioEndOrder ==
    (~options.skip_alert /\ ~options.skip_end) =>
        /\ \A it \in 1..tx.iteration :
             LET page == PageIn(sent, it)
                 a == options.alert_count
                 f == options.frames
             IN  /\ \A n \in 1..Len(page) :
                       /\ n <= a => page[n].pkt.op = OP_ALERT
                       /\ (a < n /\ n <= a + f) =>
                              /\ page[n].pkt.op = OP_TRANSMIT
                              /\ page[n].pkt.audio[Len(page[n].pkt.audio)] = n - a
                       /\ a + f < n => page[n].pkt.op = OP_END
                 /\ Len(page) <= a + f + options.end_count
                 /\ PageOver(it) => Len(page) = a + f + options.end_count
        /\ (pc = "tx_prepare" /\ tx.iteration >= 1) =>
               /\ tx.builder.previous_frame = <<>>
               /\ tx.builder.sample_count = tx.seed

\* C18 witness: a second page is about to start after a complete first page of
\* two Alerts, three Transmits and two Ends.
C18_Witness ==
    /\ ~options.skip_alert /\ ~options.skip_end
    /\ pc = "tx_prepare" /\ tx.iteration = 1
    /\ Len(sent) = 7
    /\ sent[2].pkt.op = OP_ALERT /\ sent[3].pkt.op = OP_TRANSMIT
    /\ sent[5].pkt.op = OP_TRANSMIT /\ sent[6].pkt.op = OP_END
    /\ tx.builder.previous_frame = <<>>

\* The deadline of the k-th frame of the audio phase.
Deadline(k) == tx.t0 + (k - 1) * frame_duration_ms

\* C19: in the audio phase the deadline of the k-th frame is t0 + (k-1) * 20 ms
\* whenever the earlier frames were sent; a frame is never sent before its
\* deadline, and a frame whose deadline has not passed when its turn comes is
\* sent exactly on the deadline, also after a late send.
C19_DeadlineGrid ==
    /\ [](pc = "tx_audio" => tx.next_send_time = Deadline(tx.i + 1))
    /\ [][(pc = "tx_audio" /\ Len(sent') = Len(sent) + 1) =>
              /\ sent'[Len(sent')].at >= Deadline(tx.i + 1)
              /\ now <= Deadline(tx.i + 1) => sent'[Len(sent')].at = Deadline(tx.i + 1)]_vars

\* C19 witness: the second frame went out late, 10 ms after its deadline, and
\* the third frame went out on the original grid, 40 ms after the first.
C19_Witness ==
    /\ pc = "tx_audio" /\ tx.iteration = 1 /\ tx.i = 3
    /\ Transmits(1)[1].at = tx.t0
    /\ Transmits(1)[2].at = tx.t0 + frame_duration_ms + frame_duration_ms \div 2
    /\ Transmits(1)[3].at = tx.t0 + 2 * frame_duration_ms

(***************************************************************************)
(* Claims about the RTP transmitter.                                       *)
(***************************************************************************)
\* The number of frames that hold n samples: ceil(n / frame_samples).
FramesFor(n, codec) ==
    IF n % frame_samples(codec) = 0 THEN n \div frame_samples(codec)
    ELSE n \div frame_samples(codec) + 1

\* C20: within one pass of the RTP transmitter all packets carry the same
\* SSRC, each sequence number is the previous one plus 1 modulo 2^16, each
\* timestamp the previous one plus frame_samples modulo 2^32, every frame is a
\* full frame (the last partial one zero-padded), and a finished pass has sent
\* ceil(sample count / frame_samples) packets.
C20_RtpPassProgression ==
    pc \in {"rtp_read", "rtp_send", "rtp_done"} =>
        \A it \in 1..tx.iteration :
            LET pass == PageLog(it) IN
            /\ \A n \in 1..Len(pass) :
                  /\ RtpParse(pass[n].pkt).ok
                  /\ RtpParse(pass[n].pkt).ssrc = RtpParse(pass[1].pkt).ssrc
                  /\ pass[n].chunk + pass[n].zeros = frame_samples(options.codec)
                  /\ n < Len(pass) => pass[n].zeros = 0
                  /\ n > 1 =>
                        /\ RtpParse(pass[n].pkt).sequence_number
                               = (RtpParse(pass[n - 1].pkt).sequence_number + 1) % 65536
                        /\ from_be_bytes(pass[n].pkt.timestamp)
                               = wrapping_add(from_be_bytes(pass[n - 1].pkt.timestamp),
                                              frame_samples(options.codec))
            /\ (it < tx.iteration \/ pc \in {"rtp_read", "rtp_done"}) =>
                  Len(pass) = FramesFor(options.samples, options.codec)

\* C20 witness: a pass of 400 samples of G.711 is over after three packets,
\* the last of them padded with 80 zeros.
C20_Witness ==
    /\ pc = "rtp_done"
    /\ options.codec = "G711Ulaw" /\ options.samples = 2 * G711_FRAME_SIZE + G711_FRAME_SIZE \div 2
    /\ Len(PageLog(1)) = 3
    /\ PageLog(1)[3].zeros = G711_FRAME_SIZE \div 2
    /\ RtpParse(PageLog(1)[3].pkt).sequence_number = 2
    /\ from_be_bytes(PageLog(1)[3].pkt.timestamp) = U32(0, 2 * G711_FRAME_SIZE)

(***************************************************************************)
(* Claims about functions checked on their own.                            *)
(***************************************************************************)
\* The length the encoded header of a caller ID of n bytes is to have.
EncodedLen(n) == MinHeaderLen + (IF n > MIN_CALLER_ID_LEN THEN n ELSE MIN_CALLER_ID_LEN)

\* The header was encoded, parsed back, and the two headers are the same.
RoundTrips ==
    /\ stream[1].ok
    /\ stream[1].header = options
    /\ stream[1].header_len = Len(buf.bytes)

\* C21 as stated: every header with a caller ID of at most 255 bytes is
\* encoded in 7 + max(n, 13) bytes and parses back to the same caller ID, op
\* code, channel and host serial.
C21_HeaderRoundTrip ==
    /\ (pc = "header_encoded" /\ Len(options.caller_id) <= CallerIdMax) =>
           Len(buf.bytes) = EncodedLen(Len(options.caller_id))
    /\ (pc = "header_parsed" /\ Len(options.caller_id) <= CallerIdMax) => RoundTrips

\* C21 amended: every header with a caller ID of at most 255 bytes is encoded
\* in 7 + max(n, 13) bytes, and parses back to the same caller ID, op code,
\* channel and host serial if the caller ID holds no NUL byte; a caller ID
\* with a NUL byte parses back to its bytes before the first NUL.
C21_HeaderRoundTripWithoutNul ==
    /\ (pc \in {"header_encoded", "header_parsed"} /\ Len(options.caller_id) <= CallerIdMax) =>
           Len(buf.bytes) = EncodedLen(Len(options.caller_id))
    /\ pc = "header_parsed" =>
           /\ stream[1].ok
           /\ stream[1].header.caller_id
                  = SubSeq(options.caller_id, 1, NulPosition(options.caller_id))
           /\ NulPosition(options.caller_id) = Len(options.caller_id) => RoundTrips

\* C21 witness: a caller ID of 255 bytes came back as it was, in a header of
\* 262 bytes.
C21_Witness ==
    /\ pc = "header_parsed"
    /\ Len(options.caller_id) = CallerIdMax
    /\ Len(buf.bytes) = MinHeaderLen + CallerIdMax
    /\ stream[1].header.caller_id = options.caller_id

\* C22: for every byte sequence that parses as an RTP packet, the packet built
\* from its payload type, marker, sequence number, timestamp, SSRC and payload
\* parses back to the same six values (with no CSRC, extension or padding).
C22_RtpRoundTrip ==
    pc = "rtp_reparsed" =>
        /\ stream[2].ok
        /\ stream[2].payload = stream[1].payload
        /\ \A f \in {"payload_type", "marker", "sequence_number", "timestamp", "ssrc"} :
               stream[2].header[f] = stream[1].header[f]
        /\ stream[2].header.csrc_count = 0
        /\ ~stream[2].header.extension /\ ~stream[2].header.padding

\* C22 witness: a packet with marker, payload type 127, a CSRC word, an
\* extension header and one byte of padding came back with its one byte of
\* payload.
C22_Witness ==
    /\ pc = "rtp_reparsed"
    /\ stream[1].header.marker /\ stream[1].header.payload_type = 127
    /\ stream[1].header.csrc_count = 1
    /\ stream[1].header.extension /\ stream[1].header.padding
    /\ stream[1].payload = <<2>>
    /\ stream[2].payload = <<2>>

\* What the first byte of the input declares.
InCsrcEnd == RtpMinLen + (options[1] % 16) * 4
InExtension == (options[1] \div 16) % 2 = 1
InPadding == (options[1] \div 32) % 2 = 1
InHeaderLen ==
    IF InExtension THEN InCsrcEnd + 4 + (options[InCsrcEnd + 3] * 256 + options[InCsrcEnd + 4]) * 4
    ELSE InCsrcEnd

\* C23: parse returns an error for fewer than 12 bytes, a version other than 2,
\* a length below the fixed header plus the declared CSRC words or below the
\* extension header plus its declared length, and a padding flag with a last
\* byte of 0 or above the bytes left after the header; a payload that parse
\* returns lies inside the datagram, after the header.
C23_RtpParseRejects ==
    pc \in {"rtp_parsed", "rtp_rejected"} =>
        /\ Len(options) < RtpMinLen => ~stream[1].ok
        /\ Len(options) >= RtpMinLen =>
              /\ options[1] \div 64 # RtpVersion => ~stream[1].ok
              /\ Len(options) < InCsrcEnd => ~stream[1].ok
              /\ (InExtension /\ Len(options) >= InCsrcEnd) =>
                    /\ Len(options) < InCsrcEnd + 4 => ~stream[1].ok
                    /\ (Len(options) >= InCsrcEnd + 4 /\ Len(options) < InHeaderLen) => ~stream[1].ok
              /\ (InPadding /\ options[Len(options)] = 0) => ~stream[1].ok
              /\ (InPadding /\ Len(options) >= InCsrcEnd /\ (InExtension => Len(options) >= InCsrcEnd + 4)
                    /\ options[Len(options)] > Len(options) - InHeaderLen) => ~stream[1].ok
        /\ stream[1].ok =>
              /\ RtpMinLen <= stream[1].payload_start
              /\ stream[1].payload_start <= stream[1].payload_end
              /\ stream[1].payload_end <= Len(options)
              /\ Len(stream[1].payload) = stream[1].payload_end - stream[1].payload_start

\* C23 witness: a datagram with the padding flag and a last byte of 2 that has
\* one byte after its header was rejected.
C23_Witness ==
    /\ pc = "rtp_rejected"
    /\ stream[1].error = "InvalidPadding"
    /\ Len(options) = RtpMinLen + 1
    /\ options[Len(options)] = 2

\* C24: join fails for an address that is not multicast and for a group in
\* the joined set, leave fails for a group not in the set, a failing call
\* leaves the joined set as it was, the joined set is always the set of the
\* groups joined with success and not left with success since, and leave_all
\* on a socket that has left all its groups changes nothing.
C24_JoinedSetTracksCalls ==
    /\ [](pc = "socket" => tx.joined_groups = tx.joined_ok)
    /\ [][pc = "socket" =>
            /\ \A group \in Addresses, os_ok \in BOOLEAN :
                  /\ (McJoin(group, os_ok) /\ (~is_multicast(group) \/ group \in tx.joined_groups))
                        => tx'.result \in {"NotMulticast", "AlreadyJoined"}
                  /\ (McLeave(group, os_ok) /\ group \notin tx.joined_groups)
                        => tx'.result = "NotMember"
                  /\ (McLeaveAll(os_ok) /\ tx.joined_groups = {})
                        => tx'.result = "Ok" /\ tx'.joined_groups = {}
            /\ tx'.result # "Ok" => tx'.joined_groups = tx.joined_groups]_vars

\* C24 witness: both groups are joined and a further join of one of them
\* has just failed.
C24_Witness ==
    /\ pc = "socket"
    /\ tx.op = "join"
    /\ tx.result = "AlreadyJoined"
    /\ tx.joined_groups = McastGroups

Created(what) == \E i \in DOMAIN stream : stream[i] = what

\* C25: a test run whose timeout is 0 or whose pattern expands to no endpoint
\* ends in an error, and it has then opened no socket, created no endpoint
\* state and written no metrics file and no summary.
C25_InvalidRunCreatesNothing ==
    (/\ pc # "start"
     /\ "pattern" \in DOMAIN options
     /\ options.timeout = 0 \/ parse_range(options.pattern) = [ok |-> TRUE, endpoints |-> <<>>])
    => /\ pc = "exit_err"
       /\ tx.result \in {"InvalidTimeout", "NoEndpoints", "Io"}
       /\ options.timeout = 0 => tx.result = "InvalidTimeout"
       /\ ~Created("socket") /\ ~Created("endpoint_states") /\ ~Created("metrics_file")
       /\ endpoint_states = EmptyMap
       /\ summary = NoSummary

\* C25 witness: a run with a timeout and a pattern without endpoints has
\* failed after it made the output directory.
C25_Witness ==
    /\ pc = "exit_err"
    /\ "pattern" \in DOMAIN options
    /\ options.timeout # 0
    /\ options.pattern = "empty"
    /\ tx.result = "NoEndpoints"
    /\ stream = <<"output_dir">>

RoundTripTolerance == 1000

\* C26: for every 16-bit sample and both laws, the sample decoded from the
\* code word of the sample differs from the sample by less than 1000, and
\* the code word is a byte and the decoded value a 16-bit sample.
C26_G711RoundTripError ==
    /\ pc \in {"encoded", "decoded"} => buf.code \in 0..255
    /\ pc = "decoded" =>
          /\ stream[1] \in Samples
          /\ Abs(stream[1] - options.sample) < RoundTripTolerance

\* C26 witness: the lowest sample has gone through the mu-law coder and come
\* back as -32124.
C26_Witness ==
    /\ pc = "decoded"
    /\ options = [law |-> "ulaw", sample |-> 0 - 32768]
    /\ buf.code = 0
    /\ stream = <<0 - 32124>>

\* C27: the result of simple_resample has floor(|xs| * r2 / r1) elements,
\* every element is made of samples inside xs, and for r1 = r2 the result is
\* xs.
C27_ResampleContract ==
    pc = "resampled" =>
        /\ Len(stream) = (Len(options.samples) * options.to_rate) \div options.from_rate
        /\ \A i \in DOMAIN stream : stream[i].reads \subseteq 0..(Len(options.samples) - 1)
        /\ options.from_rate = options.to_rate
              => [i \in DOMAIN stream |-> stream[i].value] = options.samples

\* The parts of C27 that do not depend on the rounding of the quotient: the
\* result is never longer than floor(|xs| * r2 / r1) and at most one element
\* shorter, reads stay inside xs, and equal rates give xs back.
ResampleWithinOne ==
    pc = "resampled" =>
        LET exact == (Len(options.samples) * options.to_rate) \div options.from_rate IN
        /\ Len(stream) \in {exact, exact - 1}
        /\ \A i \in DOMAIN stream : stream[i].reads \subseteq 0..(Len(options.samples) - 1)
        /\ options.from_rate = options.to_rate
              => [i \in DOMAIN stream |-> stream[i].value] = options.samples

\* C28: when the idle check ends the page of an endpoint, no datagram of the
\* page waits in the queue of its socket, and none has arrived at the socket
\* during the idle timeout before the check.
C28_IdleEndOnlyWhenQuiet ==
    [][(pc = "top" /\ pc' = "recv") =>
          \A e \in EndpointIds :
              (endpoint_states[e].page_active /\ ~endpoint_states'[e].page_active)
                  => /\ unread = <<>>
                     /\ tx.last_arrival = NoInstant
                            \/ now - tx.last_arrival >= IdleTimeoutMs]_vars

\* An idle end of a page in the two-socket loop that comes with an empty
\* queue, five seconds after the last arrival.
QuietIdleEnd ==
    /\ pc = "recv" /\ sock = 1
    /\ Len(completed_pages) = 1
    /\ unread = <<>>
    /\ tx.last_arrival # NoInstant
    /\ now - tx.last_arrival >= IdleTimeoutMs

\* C29: when a page has ended, the samples of every payload byte the page
\* accepted have gone to the recorder, and the decoder held no bytes when it
\* was dropped.
C29_PageEndHasAllAudio ==
    pc = "ended" =>
        \A i \in DOMAIN completed_pages :
            /\ completed_pages[i].dropped = 0
            /\ completed_pages[i].recorded
                   = samples_of(completed_pages[i].codec, completed_pages[i].accepted)

\* A G.722 page of exactly ten frames, which ends with all its audio recorded.
FullBatchPageEnd ==
    /\ pc = "ended"
    /\ completed_pages = <<[codec |-> "G722", accepted |-> decode_threshold,
                            recorded |-> 2 * decode_threshold, dropped |-> 0]>>

(***************************************************************************)
(* Claims about the keys of paging sessions.                               *)
(***************************************************************************)
\* The counters of a session
Counters(s) == <<s.alert_count, s.audio_packet_count, s.end_count>>

\* C30: paging sessions are keyed by (endpoint, channel).  Pages of one
\* channel number sent to two monitored groups at overlapping times are two
\* sessions, are counted and reported as two pages, and the counters of each
\* are those of the packets sent to its own group.
C30_SessionsKeyedByEndpoint ==
    /\ pages_started = tx.pages_started
    /\ Len(completed_pages) = tx.completed
    /\ Cardinality(DOMAIN sessions) = Cardinality(DOMAIN tx.sessions)
    /\ \A g \in DOMAIN tx.sessions :
         /\ g[2] \in DOMAIN sessions
         /\ Counters(sessions[g[2]]) = Counters(tx.sessions[g])

\* Pages of one channel to two groups overlap.
OverlappingPages ==
    \E g, h \in DOMAIN tx.sessions : g[1] # h[1] /\ g[2] = h[2]

(***************************************************************************)
(* Claims about the states of a paging session.                            *)
(***************************************************************************)
\* C31: an Alert packet processed while the session of its channel is
\* Transmitting adds one to alert_count and sets the last-packet time, and
\* nothing else: the state stays Transmitting, the other counters, the codec,
\* the decoder and the decoded samples are unchanged, no session is created
\* or removed, and no page is started or completed.
C31_AlertWhileTransmitting ==
    [][\A c \in PmChannels :
         (/\ Handled(AlertDatagram(c))
          /\ c \in DOMAIN sessions
          /\ sessions[c].state = "Transmitting")
         => /\ sessions' = [sessions EXCEPT ![c] =
                              [@ EXCEPT !.alert_count = @ + 1, !.last_packet_at = now']]
            /\ sessions'[c].state = "Transmitting"
            /\ pages_started' = pages_started
            /\ completed_pages' = completed_pages]_vars

\* An Alert has just been processed by a session that is Transmitting.
C31_Witness ==
    \E c \in DOMAIN sessions :
        /\ buf = AlertDatagram(c)
        /\ sessions[c].state = "Transmitting"
        /\ sessions[c].last_packet_at = now
        /\ sessions[c].alert_count >= 2
        /\ sessions[c].audio_packet_count >= 1
        /\ sessions[c].samples >= 1

(***************************************************************************)
(* Claims about payloads that do not decode.                               *)
(***************************************************************************)
\* C32: a payload that fails to decode is skipped and the page goes on: the
\* page stays active with its decoder, the packet is counted by the network
\* statistics, no sample is written for it, no page is ended; and a packet
\* that follows a failure is counted like any other and, when it decodes,
\* its samples are written.
C32_DecodeFailureSkipsPayload ==
    [][(received' = received + 1 =>
          /\ tx'.slot.page_active
          /\ tx'.slot.decoder # NoDecoder
          /\ pc' = "page"
          /\ completed_pages' = completed_pages
          /\ tx'.slot.stats.packets_received =
                (IF tx.slot.page_active THEN tx.slot.stats.packets_received ELSE 0) + 1
          /\ ~tx'.decoded => tx'.slot.recorded = (IF tx.slot.page_active THEN tx.slot.recorded ELSE 0)
          /\ (tx'.decoded /\ options.codec = "L16") =>
                tx'.slot.recorded = (IF tx.slot.page_active THEN tx.slot.recorded ELSE 0) + tx'.len \div 2)]_vars

\* A payload was decoded and recorded after one that failed to decode.
C32_Witness ==
    /\ tx.failures >= 1
    /\ tx.decoded
    /\ tx.slot.page_active
    /\ tx.slot.recorded > 0
    /\ tx.slot.stats.packets_received >= 2

(***************************************************************************)
(* Claims about encode errors of the RTP transmitter.                      *)
(***************************************************************************)
\* C33: a frame that fails to encode is skipped and the transmission goes on
\* with the next frame: the step of an encode error sends nothing and leaves
\* the transmitter in its send loop.
C33_EncodeErrorSkipsFrame ==
    [][Len(stream') > Len(stream) => (sent' = sent /\ pc' = "rtp_send")]_vars

(***************************************************************************)
(* Claims about the pages of the RTP receive loops.                        *)
(***************************************************************************)
\* The slots whose page ends in this step, and the summaries of the step
EndedNow == {e \in EndpointIds : endpoint_states[e].page_active /\ ~endpoint_states'[e].page_active}
NewSummaries ==
    {completed_pages'[i] : i \in (Len(completed_pages) + 1)..Len(completed_pages')}

\* C34: the duration reported for a page that ends is the time of its last
\* packet minus the time of its first packet.  The last-packet time of the
\* slot is a time of this page (it is set, and not before the page start),
\* so the duration is not negative and holds nothing of the wait for the
\* idle timeout.
C34_DurationIsLastMinusFirst ==
    [][\A e \in EndedNow :
         LET st == endpoint_states[e] IN
         /\ st.last_packet # NoInstant
         /\ st.last_packet >= st.page_start
         /\ \E s \in NewSummaries :
              s.endpoint = e /\ s.duration_ms = st.last_packet - st.page_start]_vars

\* The same for the pages whose first packet got its decoder.
DurationOfDecodedPages ==
    [][\A e \in EndedNow :
         LET st == endpoint_states[e] IN
         st.decoder # "None" =>
            /\ st.last_packet # NoInstant
            /\ st.last_packet >= st.page_start
            /\ \E s \in NewSummaries :
                 s.endpoint = e /\ s.duration_ms = st.last_packet - st.page_start]_vars

\* The page numbers of the summaries of endpoint e, in the order of the list
RECURSIVE NumbersFrom(_, _)
NumbersFrom(e, i) ==
    IF i > Len(completed_pages) THEN <<>>
    ELSE (IF completed_pages[i].endpoint = e THEN <<completed_pages[i].page_number>> ELSE <<>>)
            \o NumbersFrom(e, i + 1)
PageNumbers(e) == NumbersFrom(e, 1)

\* C35: in the automated test the pages completed on an endpoint carry the
\* numbers 1, 2, 3, ... in the order they started, without gap or repeat;
\* the page in progress, if any, has the next number; and no two summaries
\* name the same recording file.
C35_PageNumbersCount ==
    options.mode = "test" =>
        /\ \A e \in DOMAIN endpoint_states :
              /\ PageNumbers(e) = [i \in 1..Len(PageNumbers(e)) |-> i]
              /\ endpoint_states[e].page_count =
                    Len(PageNumbers(e)) + (IF endpoint_states[e].page_active THEN 1 ELSE 0)
        /\ \A i, j \in DOMAIN completed_pages :
              recording_file(completed_pages[i].endpoint, completed_pages[i].page_number)
                 = recording_file(completed_pages[j].endpoint, completed_pages[j].page_number)
              => i = j

\* Two pages were completed on one endpoint, and another on the second.
C35_Witness ==
    /\ options.mode = "test"
    /\ \E e \in DOMAIN endpoint_states : Len(PageNumbers(e)) = 2
    /\ Len(completed_pages) >= 3

\* C36: every page summary of the automated test describes a page that got
\* at least one packet and whose recording file was created; a first packet
\* whose decoder or recorder cannot be created gives no page: none is
\* counted, numbered or summarised.
C36_SummariesDescribeRecordedPages ==
    options.mode = "test" =>
        /\ \A i \in DOMAIN completed_pages :
              completed_pages[i].packets_received >= 1 /\ completed_pages[i].recorded
        /\ \A e \in DOMAIN endpoint_states :
              endpoint_states[e].page_active => endpoint_states[e].decoder # "None"

\* The summaries of the pages whose first packet got its decoder.
RecordedPagesHavePackets ==
    \A i \in DOMAIN completed_pages :
        completed_pages[i].recorded => completed_pages[i].packets_received >= 1

\* The place of a session state in the order Alerting, Transmitting, Ending
StateRank(state) ==
    IF state = "Alerting" THEN 1 ELSE IF state = "Transmitting" THEN 2 ELSE 3

\* C37: the state of a paging session only moves forward along Alerting,
\* Transmitting, Ending, whatever packets it is updated with, and end_count
\* is at least 1 exactly when the state is Ending.
C37_SessionStateMovesForward ==
    /\ [](\A c \in DOMAIN sessions :
            /\ sessions[c].state \in {"Alerting", "Transmitting", "Ending"}
            /\ (sessions[c].end_count >= 1) <=> (sessions[c].state = "Ending"))
    /\ [][\A c \in DOMAIN sessions \cap DOMAIN sessions' :
            StateRank(sessions'[c].state) >= StateRank(sessions[c].state)]_vars

\* A Transmit and then an Alert were processed by a session that is Ending.
C37_Witness ==
    \E c \in DOMAIN sessions :
        /\ sessions[c].state = "Ending"
        /\ sessions[c].end_count >= 1
        /\ buf = AlertDatagram(c)
        /\ sessions[c].last_packet_at = now
        /\ seen[c].transmit >= 2
        /\ sessions[c].alert_count >= 2

\* C38: a slot is active exactly when it holds an SSRC; a slot that is not
\* active, as every slot is after its page end, holds no decoder, no
\* recorder, no page start and zeroed network counters.
C38_ActiveIffSsrc ==
    \A e \in DOMAIN endpoint_states :
        LET st == endpoint_states[e] IN
        /\ st.page_active <=> (st.ssrc # "None")
        /\ ~st.page_active =>
              /\ st.decoder = "None"
              /\ ~st.recorder
              /\ st.page_start = NoInstant
              /\ st.stats = PageStatsDefault

\* A slot after the end of a page that had packets, next to an active one.
C38_Witness ==
    \E e, f \in DOMAIN endpoint_states :
        /\ ~endpoint_states[e].page_active
        /\ endpoint_states[e].last_packet # NoInstant
        /\ \E i \in DOMAIN completed_pages :
              completed_pages[i].endpoint = e /\ completed_pages[i].recorded
        /\ endpoint_states[f].page_active
        /\ endpoint_states[f].recorder

\* C39: a build_transmit call on a builder whose caller ID is longer than 255
\* bytes fails, returns no packet and leaves the builder as it was: the sample
\* counter does not advance and the stored previous frame is not replaced.
C39_FailedBuildLeavesBuilder ==
    [][(tx'.calls > tx.calls /\ tx'.result # NoResult
            /\ Len(tx.builder.caller_id) > CallerIdMax)
        => /\ ~tx'.result.ok
           /\ DOMAIN tx'.result = {"ok", "error"}
           /\ tx'.builder = tx.builder
           /\ tx'.builder.sample_count = tx.builder.sample_count
           /\ tx'.builder.previous_frame = tx.builder.previous_frame]_vars

\* Every failed call is one on a caller ID of more than 255 bytes, and a call
\* that succeeds stores the frame and advances the counter by one frame.
BuildFailsOnlyOnLongCallerId ==
    [][(tx'.calls > tx.calls /\ tx'.result # NoResult)
        => /\ tx'.result.ok = (Len(tx.builder.caller_id) <= CallerIdMax)
           /\ tx'.result.ok =>
                /\ tx'.builder.sample_count
                     = wrapping_add(tx.builder.sample_count, frame_size(tx.builder.codec))
                /\ Len(tx'.builder.previous_frame) = 1]_vars

C39_Witness ==
    /\ pc = "build"
    /\ tx.calls = MaxBuilds
    /\ ~tx.result.ok
    /\ tx.result.error = "CallerIdTooLong"
    /\ tx.builder.previous_frame = <<>>
    /\ tx.builder.sample_count \in Seeds
====
